---- MODULE Spec2Model ----
(***************************************************************************)
(* Boulevard skill: the rate-limit aware GraphQL client                    *)
(* (boulevard/lib/graphql.js, executeGraphQL) and the Relay cursor         *)
(* pagination helper (boulevard/lib/pagination.js, fetchAllPages).         *)
(*                                                                         *)
(* JavaScript values are records tagged by a field t: "undef", "null",     *)
(* "nan", "num", "str", "arr", "obj".  Strings that the code only tests    *)
(* or parses are sequences of characters (headers) or of tokens (error     *)
(* messages).  The cursor is a natural number, 0 standing for null.        *)
(***************************************************************************)
EXTENDS Integers, Sequences, FiniteSets, TLC

\* ------------------------------------------------------------------ bounds
MaxRetriesBound == 2      \* options.maxRetries of a direct call ranges over 0..MaxRetriesBound
MaxPagesBound == 2        \* options.maxPages ranges over 0..MaxPagesBound
PageSize == 2             \* options.pageSize of the run
MaxMsgLen == 6            \* an error message has at most MaxMsgLen tokens
MaxResponses == 4         \* of two concurrent runs, each is followed for MaxResponses responses
MaxSourceItems == 2       \* the source environment lists at most MaxSourceItems categories and services

\* ------------------------------------------------------- program constants
DefaultMaxRetries == 3
FallbackWaitMs == 500
BackoffBaseMs == 1000
BackoffCapMs == 10000

\* ------------------------------------------------------------- JS values
JUndef == [t |-> "undef"]
JNull == [t |-> "null"]
JNaN == [t |-> "nan"]
Num(n) == [t |-> "num", v |-> n]
Str(s) == [t |-> "str", s |-> s]
Arr(a) == [t |-> "arr", a |-> a]

\* obj.key of a JS object (undefined when the key is missing)
Get(o, k) == IF o.t = "obj" /\ k \in DOMAIN o THEN o[k] ELSE JUndef

\* JS truthiness of the values the code tests
Truthy(x) ==
  CASE x.t = "undef" -> FALSE
    [] x.t = "null" -> FALSE
    [] x.t = "nan" -> FALSE
    [] x.t = "num" -> x.v # 0
    [] x.t = "str" -> Len(x.s) > 0
    [] OTHER -> TRUE

Min(a, b) == IF a <= b THEN a ELSE b

RECURSIVE Pow2(_)
Pow2(n) == IF n = 0 THEN 1 ELSE 2 * Pow2(n - 1)

\* ------------------------------------------------------------ parseInt
DigitChars == {"0", "1", "2", "3", "4", "5", "6", "7", "8", "9"}
DigitVal(c) ==
  CASE c = "0" -> 0 [] c = "1" -> 1 [] c = "2" -> 2 [] c = "3" -> 3
    [] c = "4" -> 4 [] c = "5" -> 5 [] c = "6" -> 6 [] c = "7" -> 7
    [] c = "8" -> 8 [] c = "9" -> 9

RECURSIVE SkipSpaces(_)
SkipSpaces(s) == IF s # <<>> /\ Head(s) = " " THEN SkipSpaces(Tail(s)) ELSE s

\* value of the longest prefix of decimal digits of s, acc being the digits read so far
RECURSIVE DigitPrefix(_, _)
DigitPrefix(s, acc) ==
  IF s # <<>> /\ Head(s) \in DigitChars
  THEN DigitPrefix(Tail(s), 10 * acc + DigitVal(Head(s)))
  ELSE acc

\* parseInt(s, 10): leading blanks, an optional sign, then digits; NaN without a digit
ParseInt(s) ==
  LET u == SkipSpaces(s)
      neg == u # <<>> /\ Head(u) = "-"
      w == IF u # <<>> /\ Head(u) \in {"-", "+"} THEN Tail(u) ELSE u
  IN IF w = <<>> \/ Head(w) \notin DigitChars
     THEN JNaN
     ELSE Num(IF neg THEN 0 - DigitPrefix(w, 0) ELSE DigitPrefix(w, 0))

\* n * 1000 in JS arithmetic
TimesThousand(x) == IF x.t = "num" THEN Num(x.v * 1000) ELSE JNaN

\* ------------------------------------------------- rate-limit messages
\* A message is a sequence of tokens: "sig" is the text 'API limit exceeded',
\* "wait" the word wait (any case) followed by blanks, "num" a run of digits d,
\* "ms" the letters ms directly after the previous token, "word" anything else.
Tok(w) == [w |-> w, d |-> <<>>]
NumTok(d) == [w |-> "num", d |-> d]

\* message.includes('API limit exceeded')
IncludesSignature(msg) == \E i \in 1..Len(msg) : msg[i].w = "sig"

\* positions where /wait\s+(\d+)ms/i matches
WaitMatches(msg) ==
  {i \in 1..Len(msg) : /\ i + 2 <= Len(msg)
                       /\ msg[i].w = "wait"
                       /\ msg[i + 1].w = "num"
                       /\ msg[i + 2].w = "ms"}

\* variant: the last match instead of the first
SetMin_Last(S) == CHOOSE x \in S : \A y \in S : x >= y

SetMin(S) == CHOOSE x \in S : \A y \in S : x <= y

ParseWaitTime(msg) ==
  IF WaitMatches(msg) # {}
  THEN ParseInt(msg[SetMin(WaitMatches(msg)) + 1].d).v
  ELSE FallbackWaitMs

\* errors.find(e => e.message && e.message.includes('API limit exceeded')), scanning
\* from index i: the element found, "none", or the TypeError of reading a property
\* of null or calling includes on a non-string
RECURSIVE FindFrom(_, _)
FindFrom(a, i) ==
  IF i > Len(a) THEN [t |-> "none"]
  ELSE LET e == a[i]
           m == Get(e, "message")
       IN IF e.t \in {"null", "undef"} THEN [t |-> "typeerror"]
          ELSE IF ~Truthy(m) THEN FindFrom(a, i + 1)
          ELSE IF m.t # "str" THEN [t |-> "typeerror"]
          ELSE IF IncludesSignature(m.s) THEN [t |-> "found", e |-> e]
          ELSE FindFrom(a, i + 1)

FindRateLimitError(errors) ==
  IF ~Truthy(errors) \/ errors.t # "arr" THEN [t |-> "none"] ELSE FindFrom(errors.a, 1)

\* variant: a single error does not count
HasErrors_MoreThanOne(response) ==
  LET errors == Get(response, "errors")
  IN Truthy(errors) /\ errors.t = "arr" /\ Len(errors.a) > 1

\* response.errors && response.errors.length > 0
HasErrors(response) ==
  LET errors == Get(response, "errors")
  IN Truthy(errors) /\ errors.t = "arr" /\ Len(errors.a) > 0

\* ------------------------------------------------------- HTTP responses
\* what fetch() yields: a rejected promise (TypeError) or a response
NetworkFailure == [t |-> "neterr"]
Response(status, retryAfter, complexity, body) ==
  [t |-> "resp", status |-> status, retryAfter |-> retryAfter,
   complexity |-> complexity, body |-> body]

\* response bodies: "empty" is the empty text, "text" a non-empty text that is not
\* JSON, "json" a text that JSON.parse turns into the value v
EmptyBody == [t |-> "empty"]
TextBody == [t |-> "text"]
JsonBody(v) == [t |-> "json", v |-> v]

ErrObj(msg) == [t |-> "obj", message |-> Str(msg)]
Body(errors, data) == JsonBody([t |-> "obj", errors |-> errors, data |-> data])
BodyNoErrors(data) == JsonBody([t |-> "obj", data |-> data])

\* response.ok
IsOk(status) == status >= 200 /\ status <= 299

\* responseText ? JSON.parse(responseText) : {}, null when JSON.parse throws
ParseBody(body) ==
  CASE body.t = "empty" -> [t |-> "obj"]
    [] body.t = "text" -> JNull
    [] body.t = "json" -> body.v

\* { ...result, queryComplexity }
WithComplexity(result, qc) ==
  [k \in DOMAIN result \cup {"queryComplexity"} |->
     IF k = "queryComplexity" THEN qc ELSE result[k]]

\* ------------------------------------------------------- errors thrown
\* variant: every status from 400 up is marked retryable
HttpError_AllRetryable(h) ==
  [t |-> "err", name |-> "Error", kind |-> "http", status |-> h.status,
   retryable |-> (h.status >= 400),
   retryAfterMs |-> IF Truthy(h.retryAfter)
                    THEN TimesThousand(ParseInt(h.retryAfter.s)) ELSE JNull]

HttpError(h) ==
  [t |-> "err", name |-> "Error", kind |-> "http", status |-> h.status,
   retryable |-> (h.status = 429 \/ h.status >= 500),
   retryAfterMs |-> IF Truthy(h.retryAfter)
                    THEN TimesThousand(ParseInt(h.retryAfter.s)) ELSE JNull]
InvalidJsonError ==
  [t |-> "err", name |-> "Error", kind |-> "invalidjson", status |-> 0, retryable |-> TRUE,
   retryAfterMs |-> JUndef]
\* the TypeError fetch rejects with on a network failure: no retryable property
FetchTypeError ==
  [t |-> "err", name |-> "TypeError", kind |-> "network", status |-> 0, retryable |-> FALSE,
   retryAfterMs |-> JUndef]
\* the TypeError raised inside findRateLimitError's callback
CallbackTypeError ==
  [t |-> "err", name |-> "TypeError", kind |-> "callback", status |-> 0, retryable |-> FALSE,
   retryAfterMs |-> JUndef]
ExhaustedError ==
  [t |-> "err", name |-> "Error", kind |-> "exhausted", status |-> 0, retryable |-> FALSE,
   retryAfterMs |-> JUndef]

\* ------------------------------------------------- executeGraphQL, one attempt
\* variant: the loop runs one iteration too many
AttemptsRemain_OneMore(att, maxR) == att <= maxR + 1

\* for (...; attempt <= maxRetries; ...)
AttemptsRemain(att, maxR) == att <= maxR

\* variant: the budget test of the rate-limit branch is off by one
RetriesRateLimit_OffByOne(waitMs, att, maxR) == waitMs # 0 /\ att <= maxR

\* variant: the rate-limit branch retries whatever the budget
RetriesRateLimit_Always(waitMs, att, maxR) == waitMs # 0

\* waitMs && attempt < maxRetries
RetriesRateLimit(waitMs, att, maxR) == waitMs # 0 /\ att < maxR

\* the try block of one loop iteration: what it does with the response h
TryBlock(h, att, maxR) ==
  IF h.t = "neterr" THEN [t |-> "throw", err |-> FetchTypeError]
  ELSE
    LET result == ParseBody(h.body)
    IN IF ~IsOk(h.status) THEN [t |-> "throw", err |-> HttpError(h)]
       ELSE IF ~Truthy(result) \/ result.t \notin {"obj", "arr"}
       THEN [t |-> "throw", err |-> InvalidJsonError]
       ELSE
         LET rl == FindRateLimitError(Get(result, "errors"))
         IN IF rl.t = "typeerror" THEN [t |-> "throw", err |-> CallbackTypeError]
            ELSE IF rl.t = "found"
                    /\ RetriesRateLimit(ParseWaitTime(rl.e.message.s), att, maxR)
            THEN [t |-> "sleep", ms |-> Num(ParseWaitTime(rl.e.message.s))]
            ELSE [t |-> "return", value |-> WithComplexity(result, h.complexity)]

\* variant: only errors marked retryable are retried
IsRetryable_MarkedOnly(err) == err.retryable

\* err.retryable === true || err.name === 'TypeError'
IsRetryable(err) == err.retryable \/ err.name = "TypeError"

\* retryAfterMs != null ? retryAfterMs : Math.min(1000 * Math.pow(2, attempt), 10000)
Backoff(err, att) ==
  IF err.retryAfterMs.t \notin {"null", "undef"}
  THEN err.retryAfterMs
  ELSE Num(Min(BackoffBaseMs * Pow2(att), BackoffCapMs))

\* variant: a retryable error is retried once only
CatchBlock_OnceOnly(err, att, maxR) ==
  IF ~IsRetryable(err) \/ att >= 1 THEN [t |-> "throw", err |-> err]
  ELSE IF att < maxR THEN [t |-> "sleep", ms |-> Backoff(err, att)]
  ELSE [t |-> "next"]

\* the catch block: rethrow, sleep and continue, or fall through to attempt++
CatchBlock(err, att, maxR) ==
  IF ~IsRetryable(err) THEN [t |-> "throw", err |-> err]
  ELSE IF att < maxR THEN [t |-> "sleep", ms |-> Backoff(err, att)]
  ELSE [t |-> "next"]

\* ------------------------------------------------- Relay connections
ConnectionPath == <<"services">>

Node(n) == [t |-> "obj", id |-> n]
Edge(n) == [t |-> "obj", node |-> Node(n)]
PageInfo(hasNext, endCursor) ==
  [t |-> "obj", hasNextPage |-> hasNext, endCursor |-> endCursor]
Connection(edges, pageInfo) ==
  [t |-> "obj", edges |-> Arr(edges), pageInfo |-> pageInfo]
ServicesData(conn) == [t |-> "obj", services |-> conn]

\* path.split('.').reduce((current, key) => current && current[key] !== undefined
\*   ? current[key] : undefined, obj)
RECURSIVE ReducePath(_, _)
ReducePath(current, path) ==
  IF path = <<>> THEN current
  ELSE ReducePath(IF Truthy(current) /\ Get(current, Head(path)) # JUndef
                  THEN Get(current, Head(path)) ELSE JUndef,
                  Tail(path))

GetNestedValue(obj, path) ==
  IF ~Truthy(obj) \/ path = <<>> THEN JUndef ELSE ReducePath(obj, path)

\* the nodes pushed for one page: edge.node of every edge with edge && edge.node
RECURSIVE NodesFrom(_, _)
NodesFrom(a, i) ==
  IF i > Len(a) THEN <<>>
  ELSE IF Truthy(a[i]) /\ Truthy(Get(a[i], "node"))
       THEN <<Get(a[i], "node")>> \o NodesFrom(a, i + 1)
       ELSE NodesFrom(a, i + 1)

\* connection.edges || []
EdgesOf(connection) ==
  IF Truthy(Get(connection, "edges")) THEN Get(connection, "edges").a ELSE <<>>

\* variant: the first edge of each page is skipped
PageNodes_SkipFirst(connection) == NodesFrom(EdgesOf(connection), 2)

PageNodes(connection) == NodesFrom(EdgesOf(connection), 1)

\* !pageInfo || !pageInfo.hasNextPage
IsLastPage(pageInfo) == ~Truthy(pageInfo) \/ ~pageInfo.hasNextPage

\* variant: the cursor is never advanced
NextCursor_Stuck(pageInfo) == 0

\* cursor = pageInfo.endCursor
NextCursor(pageInfo) == pageInfo.endCursor

\* variant: the loop admits one page too many
LoopCondition_OneMore(count, maxP) == count <= maxP

\* while (pageCount < maxPages)
LoopCondition(count, maxP) == count < maxP

\* if (pageCount >= maxPages) console.error(warning)
WarnsAtExit(count, maxP) == count >= maxP

\* --------------------------------------------------------------- server
\* The collection the server holds: pages 1..pages-1 carry PageSize items, the last
\* page carries `last` items; items are numbered in server order.  The cursor that
\* follows page i is i.
PageLen(coll, i) == IF i < coll.pages THEN PageSize ELSE coll.last
PageItems(coll, i) == [k \in 1..PageLen(coll, i) |-> Edge((i - 1) * PageSize + k)]
HonestConnection(coll, after) ==
  Connection(PageItems(coll, after + 1),
             PageInfo(after + 1 < coll.pages,
                      IF after + 1 < coll.pages THEN after + 1 ELSE 0))
Collections == {[pages |-> p, last |-> l] : p \in 1..(MaxPagesBound + 1), l \in 1..PageSize}

\* every item of the collection, in server order
RECURSIVE AllItems(_, _)
AllItems(coll, i) ==
  IF i > coll.pages THEN <<>>
  ELSE [k \in 1..PageLen(coll, i) |-> Node((i - 1) * PageSize + k)] \o AllItems(coll, i + 1)

\* a page of PageSize nodes that belong to no collection
FillerEdges == [k \in 1..PageSize |-> Edge(90 + k)]

\* error messages
AppMsg == <<Tok("word"), Tok("word")>>
RateLimitMsg(digits) ==
  <<Tok("sig"), Tok("word"), Tok("wait"), NumTok(digits), Tok("ms"), Tok("word")>>
RateLimitMsgNoWait == <<Tok("sig"), Tok("word")>>

RetryAfterHeaders == {JNull, Str(<<"2">>), Str(<<"-", "1">>), Str(<<"s", "o", "o", "n">>)}

RateLimitBodies ==
  {Body(Arr(<<ErrObj(RateLimitMsg(<<"4", "3", "7">>))>>), JNull),
   Body(Arr(<<ErrObj(AppMsg), ErrObj(RateLimitMsg(<<"4", "3", "7">>))>>), JNull),
   Body(Arr(<<ErrObj(RateLimitMsg(<<"0">>))>>), JNull),
   Body(Arr(<<ErrObj(RateLimitMsgNoWait)>>), JNull)}
AppErrorBodies ==
  {Body(Arr(<<ErrObj(AppMsg)>>), JNull),
   Body(Arr(<<[t |-> "obj"]>>), JNull)}
\* errors arrays whose elements are not {message: string} objects
MalformedErrorBodies ==
  {Body(Arr(<<JNull>>), JNull),
   Body(Arr(<<[t |-> "obj", message |-> Num(7)]>>), JNull)}
\* JSON texts that parse to something that is not an object
PrimitiveBodies == {JsonBody(JNull), JsonBody(Num(42))}

\* what the server may answer to a direct executeGraphQL call
DirectResponses ==
  {NetworkFailure}
  \cup {Response(st, ra, JNull, b) :
          st \in {429, 500, 400, 403}, ra \in RetryAfterHeaders,
          b \in {EmptyBody, TextBody, Body(Arr(<<ErrObj(RateLimitMsg(<<"4", "3", "7">>))>>), JNull)}}
  \cup {Response(200, JNull, qc, b) :
          qc \in {JNull, Str(<<"4", "2">>)},
          b \in RateLimitBodies \cup AppErrorBodies \cup MalformedErrorBodies
                \cup {Body(Arr(<<>>), ServicesData(JNull)), BodyNoErrors(ServicesData(JNull))}}
  \cup {Response(200, JNull, JNull, b) : b \in PrimitiveBodies \cup {EmptyBody, TextBody}}

\* data objects that are not the page the request asked for
RogueData(after) ==
  {JNull,
   [t |-> "obj"],
   ServicesData(JNull),
   ServicesData(Str(<<"x">>)),
   ServicesData(Connection(FillerEdges, JUndef)),
   ServicesData(Connection(FillerEdges, PageInfo(TRUE, 0))),
   ServicesData(Connection(FillerEdges, PageInfo(TRUE, 1))),
   ServicesData(Connection(<<JNull, [t |-> "obj"], Edge(99)>>, PageInfo(FALSE, 0))),
   ServicesData([t |-> "obj", pageInfo |-> PageInfo(TRUE, after + 1)])}

\* what the server may answer to one page request of fetchAllPages
PageResponses(coll, after) ==
  {NetworkFailure,
   Response(500, JNull, JNull, TextBody),
   Response(429, Str(<<"2">>), JNull, EmptyBody),
   Response(403, JNull, JNull, TextBody),
   Response(200, JNull, JNull, TextBody),
   Response(200, JNull, JNull, Body(Arr(<<ErrObj(RateLimitMsg(<<"4", "3", "7">>))>>), JNull)),
   Response(200, JNull, JNull, Body(Arr(<<ErrObj(AppMsg)>>), JNull)),
   Response(200, JNull, JNull,
            Body(Arr(<<ErrObj(AppMsg)>>),
                 ServicesData(Connection(FillerEdges, PageInfo(TRUE, after + 1))))),
   Response(200, JNull, JNull, Body(Arr(<<JNull>>), JNull))}
  \cup {Response(200, JNull, JNull, BodyNoErrors(d)) : d \in RogueData(after)}
  \cup (IF after < coll.pages
        THEN {Response(200, JNull, JNull,
                       BodyNoErrors(ServicesData(HonestConnection(coll, after))))}
        ELSE {})

\* ------------------------------------------------------- classification
\* an element of an errors array that is not an object with a string (or no) message
IsMalformedError(e) ==
  e.t # "obj" \/ (Truthy(Get(e, "message")) /\ Get(e, "message").t # "str")
IsRateLimitErrorObj(e) ==
  e.t = "obj" /\ Get(e, "message").t = "str" /\ IncludesSignature(Get(e, "message").s)

\* the kind of answer an HTTP attempt got, read off the response alone
Class(h) ==
  IF h.t = "neterr" THEN "transient"
  ELSE IF ~IsOk(h.status)
       THEN (IF h.status = 429 \/ h.status >= 500 THEN "transient" ELSE "nonretryable")
  ELSE IF h.body.t = "text" THEN "transient"
  ELSE IF h.body.t = "empty" THEN "ok"
  ELSE IF h.body.v.t # "obj" THEN "primitive"
  ELSE LET errors == Get(h.body.v, "errors")
       IN IF errors.t # "arr" THEN "ok"
          ELSE IF \E i \in 1..Len(errors.a) : IsMalformedError(errors.a[i]) THEN "malformed"
          ELSE IF \E i \in 1..Len(errors.a) : IsRateLimitErrorObj(errors.a[i]) THEN "ratelimit"
          ELSE "ok"

\* ------------------------------------------------------------------ state
VARIABLES
  caller,        \* "none", "direct" (a script calling executeGraphQL), "walker" (fetchAllPages)
  epc,           \* executeGraphQL: "idle", "fetch", "handle", "sleep", "returned", "threw"
  maxRetries,    \* options.maxRetries of the running call
  variables,     \* the first/after variables of the running call
  attempt,       \* the loop variable
  http,          \* what the fetch of this attempt yielded
  lastError,     \* lastError
  delay,         \* the argument of the sleep() in progress
  httpAttempts,  \* number of fetch() calls of the running call
  log,           \* Class of the answer of each attempt of the running call
  engineResult,  \* the value executeGraphQL returned
  thrown,        \* the error executeGraphQL threw
  wpc,           \* fetchAllPages: "idle", "loop", "await", "done", "aborted"
  maxPages,      \* options.maxPages
  coll,          \* the collection the server holds
  allNodes, cursor, pageCount,
  warned,        \* the max-pages warning was written to stderr
  engineCalls,   \* number of executeGraphQL calls fetchAllPages made
  returned,      \* the array fetchAllPages returned
  walkErr,       \* the error fetchAllPages threw: "graphql", "shape", "engine"
  cursorLog,     \* the cursor each page request was issued with, in order
  honest,        \* every page so far was the page of the collection the request asked for
  endless,       \* every page so far resolved and said hasNextPage: true
  full,          \* every page so far carried PageSize nodes
  pmsg,          \* parseWaitTime: the message argument
  pwait,         \* parseWaitTime: the value returned, undefined before the call
  sync,          \* sync-services.js: the locals of main()
  sent,          \* sync-services.js: the GraphQL operations sent so far, in order
  diff,          \* diff-services.js: the locals of main()
  lib,           \* a call of a library function: its name, arguments and outcome
  req,           \* the Iterable client's request(): its locals and the responses so far
  inv,           \* the locals of each of the two concurrent fetchAllPages invocations
  seen           \* the responses each of the two invocations has received, in order

engineVars == <<epc, maxRetries, variables, attempt, http, lastError, delay,
                httpAttempts, log, engineResult, thrown>>
walkerVars == <<wpc, maxPages, coll, allNodes, cursor, pageCount, warned, engineCalls,
                returned, walkErr, cursorLog, honest, endless, full>>
parseVars == <<pmsg, pwait>>
pairVars == <<inv, seen>>
syncVars == <<sync, sent>>
sideVars == <<parseVars, pairVars, syncVars, diff, lib, req>>
vars == <<caller, engineVars, walkerVars, sideVars>>

NoCollection == [pages |-> 0, last |-> 0]

\* no script has called anything yet
MainIdle ==
  /\ caller = "none"
  /\ epc = "idle" /\ maxRetries = 0 /\ variables = [first |-> 0, after |-> 0]
  /\ attempt = 0 /\ http = JUndef /\ lastError = JUndef /\ delay = JUndef
  /\ httpAttempts = 0 /\ log = <<>> /\ engineResult = JUndef /\ thrown = JUndef
  /\ wpc = "idle" /\ maxPages = 0 /\ coll = NoCollection
  /\ allNodes = <<>> /\ cursor = 0 /\ pageCount = 0 /\ warned = FALSE
  /\ engineCalls = 0 /\ returned = JUndef /\ walkErr = "none"
  /\ cursorLog = <<>> /\ honest = TRUE /\ endless = TRUE /\ full = TRUE

ParseIdle == pmsg = <<>> /\ pwait = JUndef

PairIdle == inv = <<>> /\ seen = <<>>

SyncIdle == sync = [pc |-> "idle"] /\ sent = <<>>

DiffIdle == diff = [pc |-> "idle"]

LibIdle == lib = [pc |-> "idle"]

ReqIdle == req = [pc |-> "idle"]

\* the scripts and library calls that are not running
SideIdle == ParseIdle /\ PairIdle /\ SyncIdle /\ DiffIdle /\ LibIdle /\ ReqIdle

Init == MainIdle /\ SideIdle

\* ---------------------------------------------------------- executeGraphQL
\* entry of executeGraphQL(url, authToken, query, vars, {maxRetries: n}) up to its first fetch
EnterEngine(n, vs) ==
  /\ maxRetries' = n /\ variables' = vs
  /\ attempt' = 0 /\ lastError' = JUndef /\ epc' = "fetch"
  /\ http' = JUndef /\ delay' = JUndef /\ httpAttempts' = 0 /\ log' = <<>>
  /\ engineResult' = JUndef /\ thrown' = JUndef

\* a script calls executeGraphQL directly
CallExecuteGraphQL(n) ==
  /\ caller = "none"
  /\ caller' = "direct"
  /\ EnterEngine(n, [first |-> 0, after |-> 0])
  /\ UNCHANGED walkerVars
  /\ UNCHANGED sideVars

ServerResponses ==
  IF caller = "walker" THEN PageResponses(coll, variables.after) ELSE DirectResponses

\* await fetch(...) of attempt `attempt`, answered by h
EngineFetch(h) ==
  /\ epc = "fetch" /\ AttemptsRemain(attempt, maxRetries)
  /\ h \in ServerResponses
  /\ http' = h
  /\ httpAttempts' = httpAttempts + 1
  /\ log' = Append(log, Class(h))
  /\ epc' = "handle"
  /\ UNCHANGED <<caller, maxRetries, variables, attempt, lastError, delay,
                 engineResult, thrown, walkerVars>>
  /\ UNCHANGED sideVars

\* the rest of the loop body: try block, then the catch block when it threw
EngineHandle ==
  /\ epc = "handle"
  /\ LET try == TryBlock(http, attempt, maxRetries)
         out == IF try.t = "throw" THEN CatchBlock(try.err, attempt, maxRetries) ELSE try
     IN /\ lastError' = IF try.t = "throw" THEN try.err ELSE lastError
        /\ CASE out.t = "return" ->
                  /\ epc' = "returned" /\ engineResult' = out.value
                  /\ UNCHANGED <<thrown, delay, attempt>>
             [] out.t = "throw" ->
                  /\ epc' = "threw" /\ thrown' = out.err
                  /\ UNCHANGED <<engineResult, delay, attempt>>
             [] out.t = "sleep" ->
                  /\ epc' = "sleep" /\ delay' = out.ms
                  /\ UNCHANGED <<engineResult, thrown, attempt>>
             [] out.t = "next" ->
                  /\ epc' = "fetch" /\ attempt' = attempt + 1
                  /\ UNCHANGED <<engineResult, thrown, delay>>
  /\ UNCHANGED <<caller, maxRetries, variables, http, httpAttempts, log, walkerVars>>
  /\ UNCHANGED sideVars

\* the sleep ends; continue; attempt++
EngineWake ==
  /\ epc = "sleep"
  /\ attempt' = attempt + 1
  /\ delay' = JUndef
  /\ epc' = "fetch"
  /\ UNCHANGED <<caller, maxRetries, variables, http, lastError, httpAttempts, log,
                 engineResult, thrown, walkerVars>>
  /\ UNCHANGED sideVars

\* the loop condition fails: throw lastError || new Error(...)
EngineExhausted ==
  /\ epc = "fetch" /\ ~AttemptsRemain(attempt, maxRetries)
  /\ thrown' = IF lastError.t = "err" THEN lastError ELSE ExhaustedError
  /\ epc' = "threw"
  /\ UNCHANGED <<caller, maxRetries, variables, attempt, http, lastError, delay,
                 httpAttempts, log, engineResult, walkerVars>>
  /\ UNCHANGED sideVars

\* ----------------------------------------------------------- fetchAllPages
\* a script calls fetchAllPages({..., options: {pageSize: PageSize, maxPages: mp}})
\* against a server holding collection c
CallFetchAllPages(mp, c) ==
  /\ caller = "none"
  /\ caller' = "walker"
  /\ maxPages' = mp /\ coll' = c
  /\ allNodes' = <<>> /\ cursor' = 0 /\ pageCount' = 0
  /\ wpc' = "loop"
  /\ UNCHANGED <<engineVars, warned, engineCalls, returned, walkErr, cursorLog,
                 honest, endless, full>>
  /\ UNCHANGED sideVars

\* the code after the loop: the warning, then return allNodes
Finish(nodes, count) ==
  /\ warned' = WarnsAtExit(count, maxPages)
  /\ returned' = Arr(nodes)
  /\ wpc' = "done"

\* the loop head: leave the loop, or build the variables and call executeGraphQL
\* with options {verbose}
WalkerLoop ==
  /\ wpc = "loop"
  /\ IF LoopCondition(pageCount, maxPages)
     THEN /\ EnterEngine(DefaultMaxRetries, [first |-> PageSize, after |-> cursor])
          /\ engineCalls' = engineCalls + 1
          /\ cursorLog' = Append(cursorLog, cursor)
          /\ wpc' = "await"
          /\ UNCHANGED <<warned, returned>>
     ELSE /\ Finish(allNodes, pageCount)
          /\ UNCHANGED <<engineVars, engineCalls, cursorLog>>
  /\ UNCHANGED <<caller, maxPages, coll, allNodes, cursor, pageCount, walkErr,
                 honest, endless, full>>
  /\ UNCHANGED sideVars

\* the response carries a non-empty errors array
CarriesErrors(response) ==
  Get(response, "errors").t = "arr" /\ Len(Get(response, "errors").a) > 0

\* the endCursor the page declares (0 when there is no pageInfo)
DeclaredEndCursor(response) ==
  LET pi == Get(Get(Get(response, "data"), "services"), "pageInfo")
  IN IF pi.t = "obj" THEN pi.endCursor ELSE 0

\* the page resolved to a connection that said hasNextPage: true
IsOpenPage(response) ==
  LET conn == Get(Get(response, "data"), "services")
  IN /\ ~CarriesErrors(response)
     /\ conn.t = "obj"
     /\ Get(conn, "pageInfo").t = "obj"
     /\ Get(conn, "pageInfo").hasNextPage

\* the page carried exactly PageSize edges, each with a node
IsFullPage(response) ==
  LET edges == Get(Get(Get(response, "data"), "services"), "edges")
  IN /\ edges.t = "arr"
     /\ Len(edges.a) = PageSize
     /\ \A i \in 1..Len(edges.a) : Get(edges.a[i], "node").t = "obj"

\* the page was the one the collection holds after the requested cursor
IsHonestPage(response) ==
  /\ ~CarriesErrors(response)
  /\ variables.after < coll.pages
  /\ Get(response, "data") = ServicesData(HonestConnection(coll, variables.after))

\* executeGraphQL returned: the rest of the loop body
WalkerProcess ==
  /\ wpc = "await" /\ epc = "returned"
  /\ epc' = "idle"
  /\ honest' = (honest /\ IsHonestPage(engineResult))
  /\ endless' = (endless /\ IsOpenPage(engineResult))
  /\ full' = (full /\ IsFullPage(engineResult))
  /\ LET response == engineResult
         connection == GetNestedValue(Get(response, "data"), ConnectionPath)
         pageInfo == Get(connection, "pageInfo")
     IN IF HasErrors(response)
        THEN /\ wpc' = "aborted" /\ walkErr' = "graphql"
             /\ UNCHANGED <<allNodes, cursor, pageCount, warned, returned>>
        ELSE IF ~Truthy(connection)
        THEN /\ wpc' = "aborted" /\ walkErr' = "shape"
             /\ UNCHANGED <<allNodes, cursor, pageCount, warned, returned>>
        ELSE /\ allNodes' = allNodes \o PageNodes(connection)
             /\ pageCount' = pageCount + 1
             /\ walkErr' = walkErr
             /\ IF IsLastPage(pageInfo)
                THEN /\ Finish(allNodes \o PageNodes(connection), pageCount + 1)
                     /\ UNCHANGED cursor
                ELSE /\ cursor' = NextCursor(pageInfo)
                     /\ wpc' = "loop"
                     /\ UNCHANGED <<warned, returned>>
  /\ UNCHANGED <<caller, maxRetries, variables, attempt, http, lastError, delay,
                 httpAttempts, log, engineResult, thrown, maxPages, coll, engineCalls,
                 cursorLog>>
  /\ UNCHANGED sideVars

\* executeGraphQL threw: the error leaves fetchAllPages
WalkerPropagate ==
  /\ wpc = "await" /\ epc = "threw"
  /\ epc' = "idle"
  /\ wpc' = "aborted" /\ walkErr' = "engine"
  /\ honest' = FALSE /\ endless' = FALSE /\ full' = FALSE
  /\ UNCHANGED <<caller, maxRetries, variables, attempt, http, lastError, delay,
                 httpAttempts, log, engineResult, thrown, maxPages, coll, allNodes,
                 cursor, pageCount, warned, engineCalls, returned, cursorLog>>
  /\ UNCHANGED sideVars

Next ==
  \/ \E n \in 0..MaxRetriesBound : CallExecuteGraphQL(n)
  \/ \E mp \in 0..MaxPagesBound, c \in Collections : CallFetchAllPages(mp, c)
  \/ \E h \in ServerResponses : EngineFetch(h)
  \/ EngineHandle
  \/ EngineWake
  \/ EngineExhausted
  \/ WalkerLoop
  \/ WalkerProcess
  \/ WalkerPropagate

Spec == Init /\ [][Next]_vars

\* executeGraphQL moves on: fetch and response.text() answer, timers fire, and the
\* continuation of a settled await runs
EngineStep ==
  /\ epc \in {"fetch", "handle", "sleep"}
  /\ epc' \in {"fetch", "handle", "sleep", "returned", "threw"}

\* fetchAllPages moves on: the loop head runs, and so does the continuation of the
\* await once executeGraphQL has returned or thrown
WalkerStep ==
  /\ wpc = "loop" \/ (wpc = "await" /\ epc \in {"returned", "threw"})
  /\ wpc' \in {"loop", "await", "done", "aborted"}

LiveSpec == Init /\ [][Next]_vars /\ WF_epc(EngineStep) /\ WF_wpc(WalkerStep)

\* ================================================================ properties
EngineDone == epc \in {"returned", "threw"}
AllOf(cls) == log # <<>> /\ \A i \in 1..Len(log) : log[i] = cls
InLog(cls) == \E i \in 1..Len(log) : log[i] = cls
WalkerEnded == wpc \in {"done", "aborted"}

\* the rate-limit message of the response asks for a wait of 0 ms
WaitIsZero(h) == h.body = Body(Arr(<<ErrObj(RateLimitMsg(<<"0">>))>>), JNull)

\* C1: when every HTTP attempt of a call fails with a transient transport error
\* (429, >= 500, network exception, unparseable 200 body), the call ends by throwing
\* the last error after exactly maxRetries + 1 attempts.
C1_TransientExhaustsBudget ==
  (EngineDone /\ AllOf("transient"))
    => (epc = "threw" /\ httpAttempts = maxRetries + 1
        /\ thrown.t = "err" /\ thrown = lastError)

C1_Witness ==
  /\ caller = "direct" /\ epc = "threw" /\ AllOf("transient")
  /\ maxRetries = MaxRetriesBound /\ httpAttempts = MaxRetriesBound + 1
  /\ http = NetworkFailure

\* C2: a response with a non-OK status other than 429 and below 500 is the last
\* attempt of its call: the call throws the HTTP error at once, whatever maxRetries,
\* Retry-After and the body; when it is the first response the call made 1 attempt.
C2_NonRetryableThrowsAtOnce ==
  \A i \in 1..Len(log) :
    log[i] = "nonretryable"
      => /\ i = Len(log)
         /\ epc \in {"handle", "threw", "idle"}
         /\ epc # "handle"
              => (thrown.t = "err" /\ thrown.kind = "http" /\ thrown.status = http.status)
         /\ i = 1 => httpAttempts = 1

C2_Witness ==
  /\ epc = "threw" /\ log = <<"nonretryable">>
  /\ maxRetries = MaxRetriesBound
  /\ http.retryAfter = Str(<<"2">>) /\ http.body.t = "json"

\* C3: a call never makes more than maxRetries + 1 HTTP attempts, whatever mix of
\* transport failures and rate-limit signals it meets; both draw on the one counter
\* `attempt`.
C3_AttemptsBounded ==
  /\ httpAttempts <= maxRetries + 1
  /\ epc \in {"handle", "sleep"} => httpAttempts = attempt + 1

C3_Witness ==
  /\ EngineDone /\ InLog("transient") /\ InLog("ratelimit")
  /\ httpAttempts = maxRetries + 1 /\ maxRetries = MaxRetriesBound

\* C4: the call never throws on account of an attempt whose status was OK and whose
\* body parsed as a JSON object, whatever its errors field holds.
C4_NoThrowOnParsedBody ==
  epc = "threw"
    => ~(http.t = "resp" /\ IsOk(http.status)
         /\ http.body.t = "json" /\ http.body.v.t = "obj")

\* C5 (as stated): when every attempt of a call returns HTTP 200 with a rate-limit
\* error, the call ends by throwing.
C5_RateLimitEndsInThrow ==
  (EngineDone /\ AllOf("ratelimit")) => epc = "threw"

\* C5 (amended): when every attempt of a call returns HTTP 200 with a rate-limit
\* error, the call never throws: it returns the body of its last attempt with the
\* rate-limit error still in errors, after maxRetries + 1 attempts unless a message
\* asked for a wait of 0 ms.
C5_RateLimitEndsInReturn ==
  (EngineDone /\ AllOf("ratelimit"))
    => /\ epc = "returned"
       /\ CarriesErrors(engineResult)
       /\ Get(engineResult, "errors") = Get(http.body.v, "errors")
       /\ httpAttempts = maxRetries + 1 \/ WaitIsZero(http)

C5_Witness ==
  /\ epc = "returned" /\ AllOf("ratelimit")
  /\ maxRetries = MaxRetriesBound /\ httpAttempts = MaxRetriesBound + 1

\* C6 (as stated): with maxRetries = 0, a rate-limit signal on the first attempt is
\* followed by a sleep.
C6_FirstSignalAlwaysRetried ==
  [][(epc = "handle" /\ attempt = 0 /\ maxRetries = 0 /\ Class(http) = "ratelimit"
      /\ ~WaitIsZero(http))
       => epc' = "sleep"]_vars

\* C6 (amended): a rate-limit signal on the first attempt is followed by a sleep and
\* a second attempt exactly when maxRetries >= 1 and the wait is not 0 ms; with
\* maxRetries = 0 the call returns that response after its single attempt.
C6_FirstSignalRetriedWithinBudget ==
  [][/\ (epc = "handle" /\ attempt = 0 /\ Class(http) = "ratelimit")
          => IF maxRetries >= 1 /\ ~WaitIsZero(http)
             THEN epc' = "sleep" /\ delay'.t = "num" /\ delay'.v > 0
             ELSE epc' = "returned" /\ httpAttempts' = 1
                  /\ CarriesErrors(engineResult')
     /\ epc = "sleep"
          => (epc' = "fetch" /\ attempt' = attempt + 1 /\ attempt' <= maxRetries)]_vars

C6_Witness ==
  /\ caller = "direct" /\ epc = "returned" /\ maxRetries = 0
  /\ log = <<"ratelimit">> /\ ~WaitIsZero(http)

\* C7: against a server that serves its collection of P <= maxPages pages honestly,
\* fetchAllPages returns every item in server order with exactly P engine calls.
C7_CompleteCollection ==
  (wpc = "done" /\ honest /\ coll.pages <= maxPages)
    => (returned = Arr(AllItems(coll, 1)) /\ engineCalls = coll.pages
        /\ walkErr = "none")

C7_Witness ==
  /\ wpc = "done" /\ honest
  /\ coll.pages = MaxPagesBound /\ maxPages = MaxPagesBound /\ coll.last = 1
  /\ Len(returned.a) = (MaxPagesBound - 1) * PageSize + 1

\* C8: when the engine's response for a page carries errors, fetchAllPages throws at
\* that page, makes no further engine call and hands no node to the caller.
C8_AbortsOnErrors ==
  [][/\ (wpc = "await" /\ epc = "returned" /\ CarriesErrors(engineResult))
          => (wpc' = "aborted" /\ walkErr' = "graphql"
              /\ returned' = JUndef /\ engineCalls' = engineCalls)
     /\ wpc = "aborted"
          => (wpc' = "aborted" /\ returned' = JUndef
              /\ engineCalls' = engineCalls /\ epc' = epc)]_vars

C8_Witness ==
  /\ wpc = "aborted" /\ walkErr = "graphql"
  /\ pageCount >= 1 /\ allNodes # <<>> /\ returned = JUndef

\* C9: when every page says hasNextPage: true, fetchAllPages with maxPages = M makes
\* exactly M engine calls, then returns without throwing the nodes of those M pages
\* (M * PageSize of them when the pages are full) and writes the warning.
C9_SafetyValve ==
  (WalkerEnded /\ endless)
    => /\ wpc = "done" /\ walkErr = "none"
       /\ engineCalls = maxPages
       /\ warned
       /\ returned = Arr(allNodes)
       /\ full => Len(returned.a) = maxPages * PageSize
       /\ honest => returned.a = SubSeq(AllItems(coll, 1), 1, maxPages * PageSize)

C9_Witness ==
  /\ wpc = "done" /\ endless /\ full /\ honest /\ warned
  /\ maxPages = MaxPagesBound /\ Len(returned.a) = MaxPagesBound * PageSize

NoRepeat(seq) == \A i, j \in 1..Len(seq) : i < j => seq[i] # seq[j]
StrictlyIncreasing(seq) == \A i, j \in 1..Len(seq) : i < j => seq[i] < seq[j]

PayloadOf(h) == IF h.body.t = "json" THEN h.body.v ELSE [t |-> "obj"]

\* res is the payload of h, field for field, plus the x-query-complexity header
IsVerbatim(res, h) ==
  /\ DOMAIN res = DOMAIN PayloadOf(h) \cup {"queryComplexity"}
  /\ \A k \in DOMAIN PayloadOf(h) : res[k] = PayloadOf(h)[k]
  /\ res.queryComplexity = h.complexity

\* C11: a 200 response carrying the rate-limit signature while attempt < maxRetries
\* is followed by a sleep of the parsed wait (and then by another attempt), for
\* every wait value.
C11_SignalWithinBudgetRetried ==
  [][(epc = "handle" /\ Class(http) = "ratelimit" /\ attempt < maxRetries)
       => (epc' = "sleep" /\ delay'.t = "num")]_vars

\* C12: a 200 response whose errors array holds no message with the rate-limit
\* signature is returned verbatim on that attempt, with no sleep and no further
\* attempt.
C12_AppErrorsReturnedVerbatim ==
  [][(/\ epc = "handle" /\ http.t = "resp" /\ IsOk(http.status)
      /\ http.body.t = "json" /\ http.body.v.t = "obj"
      /\ Get(http.body.v, "errors").t = "arr"
      /\ \A i \in 1..Len(Get(http.body.v, "errors").a) :
           ~IsRateLimitErrorObj(Get(http.body.v, "errors").a[i]))
       => (epc' = "returned" /\ IsVerbatim(engineResult', http)
           /\ httpAttempts' = httpAttempts)]_vars

\* the header is a (possibly signed) decimal number of seconds
IsSecondsHeader(hd) ==
  /\ hd.t = "str" /\ hd.s # <<>>
  /\ LET digits == IF Head(hd.s) = "-" THEN Tail(hd.s) ELSE hd.s
     IN digits # <<>> /\ \A i \in 1..Len(digits) : digits[i] \in DigitChars

\* the number a run of decimal digits denotes
RECURSIVE DecimalValue(_)
DecimalValue(ds) ==
  IF ds = <<>> THEN 0
  ELSE 10 * DecimalValue(SubSeq(ds, 1, Len(ds) - 1)) + DigitVal(ds[Len(ds)])

SecondsOf(hd) ==
  IF Head(hd.s) = "-" THEN 0 - DecimalValue(Tail(hd.s)) ELSE DecimalValue(hd.s)

\* the delay the retry policy prescribes after the failed answer h of attempt a
PrescribedDelay(h, a) ==
  IF h.t = "resp" /\ ~IsOk(h.status) /\ IsSecondsHeader(h.retryAfter)
  THEN Num(1000 * SecondsOf(h.retryAfter))
  ELSE Num(Min(1000 * Pow2(a), 10000))

\* C13: the delay slept before retrying a transport failure is 1000 * s ms when the
\* failed response carried Retry-After: s, and min(1000 * 2^attempt, 10000) ms
\* otherwise.
C13_RetryDelay ==
  (epc = "sleep" /\ Class(http) = "transient") => delay = PrescribedDelay(http, attempt)

\* C14: every delay slept before a retry is a non-negative number of milliseconds.
C14_DelayNonNegative ==
  epc = "sleep" => (delay.t = "num" /\ delay.v >= 0)

TransientsThenOk ==
  /\ Len(log) >= 1 /\ log[Len(log)] = "ok"
  /\ \A i \in 1..(Len(log) - 1) : log[i] = "transient"

\* C15: k <= maxRetries retryable failures do not end the call, and when the next
\* attempt answers 200 with a valid body the call returns that payload, after
\* exactly k + 1 attempts.
C15_RecoversAfterRetries ==
  /\ (TransientsThenOk /\ epc # "handle")
       => (epc \in {"returned", "idle"} /\ httpAttempts = Len(log)
           /\ IsVerbatim(engineResult, http))
  /\ (AllOf("transient") /\ Len(log) <= maxRetries /\ epc # "handle")
       => epc \in {"sleep", "fetch"}

C15_Witness ==
  /\ epc = "returned" /\ log = <<"transient", "transient", "ok">>
  /\ maxRetries = DefaultMaxRetries /\ httpAttempts = 3
  /\ Get(engineResult, "data").t = "obj"

\* C16: the first page request carries after = null; a page request is issued only
\* when every earlier engine call has returned and its page has been processed, and
\* it carries the endCursor that page declared; so at most one engine call is in
\* flight.
C16_PagesOneAtATime ==
  /\ [](caller = "walker"
          => /\ Len(cursorLog) = engineCalls
             /\ cursorLog # <<>> => cursorLog[1] = 0
             /\ epc \in {"fetch", "handle", "sleep", "returned", "threw"}
                  => (wpc = "await" /\ engineCalls = pageCount + 1)
             /\ wpc = "loop" => (epc = "idle" /\ engineCalls = pageCount))
  /\ [][(wpc = "loop" /\ wpc' = "await")
          => /\ epc = "idle"
             /\ variables'.after =
                  (IF pageCount = 0 THEN 0 ELSE DeclaredEndCursor(engineResult))
             /\ cursorLog' = Append(cursorLog, variables'.after)]_vars

C16_Witness ==
  /\ wpc = "await" /\ epc = "handle" /\ engineCalls = 2 /\ pageCount = 1
  /\ variables.after # 0 /\ cursorLog = <<0, variables.after>>

\* C19: when the connection path does not resolve to an object in a page's data,
\* fetchAllPages throws the shape error at that page: no further engine call and
\* no result.
C19_AbortsOnShape ==
  [][(/\ wpc = "await" /\ epc = "returned" /\ ~CarriesErrors(engineResult)
      /\ Get(Get(engineResult, "data"), "services").t # "obj")
       => (wpc' = "aborted" /\ walkErr' = "shape"
           /\ returned' = JUndef /\ engineCalls' = engineCalls)]_vars

\* ------------------------------------------------ parseWaitTime on its own
\* the pieces error messages are made of
MessageTokens ==
  {Tok("sig"), Tok("word"), Tok("wait"), Tok("ms"),
   NumTok(<<"4", "3", "7">>), NumTok(<<"0", "7">>)}
Messages == UNION {[1..n -> MessageTokens] : n \in 0..MaxMsgLen}

InitParse == MainIdle /\ PairIdle /\ SyncIdle /\ DiffIdle /\ LibIdle /\ ReqIdle /\ pmsg \in Messages /\ pwait = JUndef

\* parseWaitTime(pmsg)
CallParseWaitTime ==
  /\ pwait = JUndef
  /\ pwait' = Num(ParseWaitTime(pmsg))
  /\ UNCHANGED <<pmsg, caller, engineVars, walkerVars, pairVars, syncVars, diff, lib, req>>

NextParse == CallParseWaitTime

SpecParse == InitParse /\ [][NextParse]_vars

\* reading the message from left to right: the number of the first
\* wait <digits> ms, or -1 when there is none
RECURSIVE FirstWaitNumber(_)
FirstWaitNumber(m) ==
  IF Len(m) < 3 THEN 0 - 1
  ELSE IF m[1].w = "wait" /\ m[2].w = "num" /\ m[3].w = "ms"
       THEN DecimalValue(m[2].d)
       ELSE FirstWaitNumber(Tail(m))

\* C20: parseWaitTime returns the integer N of the first 'wait Nms' token of the
\* message (437 for '... wait 437ms ...'), and 500 when the message has no such
\* token.
C20_ParsedWait ==
  pwait # JUndef
    => pwait = Num(IF FirstWaitNumber(pmsg) >= 0 THEN FirstWaitNumber(pmsg) ELSE 500)

C20_Witness ==
  /\ pmsg = <<Tok("wait"), NumTok(<<"0", "7">>), Tok("ms"),
              Tok("wait"), NumTok(<<"4", "3", "7">>), Tok("ms")>>
  /\ pwait = Num(7)

C20_Witness437 ==
  /\ pmsg = <<Tok("sig"), Tok("wait"), NumTok(<<"4", "3", "7">>), Tok("ms"),
              Tok("word"), Tok("word")>>
  /\ pwait = Num(437)

C20_WitnessFallback ==
  /\ pmsg = <<Tok("sig"), Tok("wait"), Tok("word"), NumTok(<<"4", "3", "7">>), Tok("ms")>>
  /\ pwait = Num(500)

\* ------------------------------- two fetchAllPages invocations in Promise.all
\* fetchEnvironmentData runs fetchAllPages for 'serviceCategories' (invocation 1)
\* and for 'services' (invocation 2) concurrently.  The locals of an invocation
\* and of the executeGraphQL call it awaits form one record; maxPages, 100 at this
\* call site, is scaled to MaxPagesBound.
Invocations == {1, 2}
PairPath(w) == IF w = 1 THEN <<"serviceCategories">> ELSE ConnectionPath
PairData(w, conn) ==
  IF w = 1 THEN [t |-> "obj", serviceCategories |-> conn] ELSE ServicesData(conn)
PairColl(w) ==
  IF w = 1 THEN [pages |-> 1, last |-> 1] ELSE [pages |-> MaxPagesBound + 1, last |-> 1]

NewInvocation(path) ==
  [connectionPath |-> path, wpc |-> "loop", allNodes |-> <<>>, cursor |-> 0,
   pageCount |-> 0, warned |-> FALSE, returned |-> JUndef, walkErr |-> "none",
   after |-> 0, epc |-> "idle", attempt |-> 0, lastError |-> JUndef, http |-> JUndef,
   delay |-> JUndef, engineResult |-> JUndef, thrown |-> JUndef]

\* variant: both invocations keep their locals in the same place
OwnState_Shared(w) == 1

\* the locals an invocation works on: its own
OwnState(w) == w

\* the loop head of fetchAllPages
LoopStep(st) ==
  IF LoopCondition(st.pageCount, MaxPagesBound)
  THEN [st EXCEPT !.wpc = "await", !.after = st.cursor, !.epc = "fetch",
                  !.attempt = 0, !.lastError = JUndef, !.http = JUndef,
                  !.delay = JUndef, !.engineResult = JUndef, !.thrown = JUndef]
  ELSE [st EXCEPT !.wpc = "done", !.returned = Arr(st.allNodes),
                  !.warned = WarnsAtExit(st.pageCount, MaxPagesBound)]

\* await fetch(...) answered by h
FetchStep(st, h) == [st EXCEPT !.http = h, !.epc = "handle"]

\* the try block, then the catch block when it threw
HandleStep(st) ==
  LET try == TryBlock(st.http, st.attempt, DefaultMaxRetries)
      out == IF try.t = "throw" THEN CatchBlock(try.err, st.attempt, DefaultMaxRetries)
             ELSE try
      st1 == [st EXCEPT !.lastError = IF try.t = "throw" THEN try.err ELSE @]
  IN CASE out.t = "return" -> [st1 EXCEPT !.epc = "returned", !.engineResult = out.value]
       [] out.t = "throw" -> [st1 EXCEPT !.epc = "threw", !.thrown = out.err]
       [] out.t = "sleep" -> [st1 EXCEPT !.epc = "sleep", !.delay = out.ms]
       [] out.t = "next" -> [st1 EXCEPT !.epc = "fetch", !.attempt = @ + 1]

\* the sleep ends; continue; attempt++
WakeStep(st) == [st EXCEPT !.attempt = @ + 1, !.delay = JUndef, !.epc = "fetch"]

\* throw lastError || new Error(...)
ExhaustedStep(st) ==
  [st EXCEPT !.epc = "threw",
             !.thrown = IF st.lastError.t = "err" THEN st.lastError ELSE ExhaustedError]

\* executeGraphQL returned: the rest of the loop body of fetchAllPages
ProcessStep(st) ==
  LET response == st.engineResult
      connection == GetNestedValue(Get(response, "data"), st.connectionPath)
      pageInfo == Get(connection, "pageInfo")
      nodes == st.allNodes \o PageNodes(connection)
      st1 == [st EXCEPT !.epc = "idle"]
  IN IF HasErrors(response) THEN [st1 EXCEPT !.wpc = "aborted", !.walkErr = "graphql"]
     ELSE IF ~Truthy(connection) THEN [st1 EXCEPT !.wpc = "aborted", !.walkErr = "shape"]
     ELSE IF IsLastPage(pageInfo)
     THEN [st1 EXCEPT !.allNodes = nodes, !.pageCount = @ + 1, !.wpc = "done",
                      !.returned = Arr(nodes),
                      !.warned = WarnsAtExit(st.pageCount + 1, MaxPagesBound)]
     ELSE [st1 EXCEPT !.allNodes = nodes, !.pageCount = @ + 1, !.wpc = "loop",
                      !.cursor = NextCursor(pageInfo)]

\* executeGraphQL threw: the error leaves fetchAllPages
PropagateStep(st) == [st EXCEPT !.epc = "idle", !.wpc = "aborted", !.walkErr = "engine"]

\* what the server may answer to a page request of invocation w
PairResponses(w, after) ==
  {Response(500, JNull, JNull, TextBody),
   Response(200, JNull, JNull, Body(Arr(<<ErrObj(RateLimitMsg(<<"4", "3", "7">>))>>), JNull)),
   Response(200, JNull, JNull, Body(Arr(<<ErrObj(AppMsg)>>), JNull))}
  \cup (IF after < PairColl(w).pages
        THEN {Response(200, JNull, JNull,
                       BodyNoErrors(PairData(w, HonestConnection(PairColl(w), after))))}
        ELSE {})

InitPair ==
  /\ MainIdle /\ ParseIdle /\ SyncIdle /\ DiffIdle /\ LibIdle /\ ReqIdle
  /\ inv = [w \in Invocations |-> NewInvocation(PairPath(w))]
  /\ seen = [w \in Invocations |-> <<>>]

\* invocation w takes a step of its code that leaves its locals as st
Advance(w, st) ==
  /\ inv' = [inv EXCEPT ![OwnState(w)] = st]
  /\ UNCHANGED <<seen, caller, engineVars, walkerVars, parseVars, syncVars, diff, lib, req>>

PairLoop(w) == inv[OwnState(w)].wpc = "loop" /\ Advance(w, LoopStep(inv[OwnState(w)]))

PairFetch(w, h) ==
  LET st == inv[OwnState(w)]
  IN /\ st.wpc = "await" /\ st.epc = "fetch"
     /\ AttemptsRemain(st.attempt, DefaultMaxRetries)
     /\ Len(seen[w]) < MaxResponses
     /\ h \in PairResponses(w, st.after)
     /\ inv' = [inv EXCEPT ![OwnState(w)] = FetchStep(st, h)]
     /\ seen' = [seen EXCEPT ![w] = Append(@, h)]
     /\ UNCHANGED <<caller, engineVars, walkerVars, parseVars, syncVars, diff, lib, req>>

PairHandle(w) ==
  /\ inv[OwnState(w)].wpc = "await" /\ inv[OwnState(w)].epc = "handle"
  /\ Advance(w, HandleStep(inv[OwnState(w)]))

PairWake(w) ==
  /\ inv[OwnState(w)].wpc = "await" /\ inv[OwnState(w)].epc = "sleep"
  /\ Advance(w, WakeStep(inv[OwnState(w)]))

PairExhausted(w) ==
  /\ inv[OwnState(w)].wpc = "await" /\ inv[OwnState(w)].epc = "fetch"
  /\ ~AttemptsRemain(inv[OwnState(w)].attempt, DefaultMaxRetries)
  /\ Advance(w, ExhaustedStep(inv[OwnState(w)]))

PairProcess(w) ==
  /\ inv[OwnState(w)].wpc = "await" /\ inv[OwnState(w)].epc = "returned"
  /\ Advance(w, ProcessStep(inv[OwnState(w)]))

PairPropagate(w) ==
  /\ inv[OwnState(w)].wpc = "await" /\ inv[OwnState(w)].epc = "threw"
  /\ Advance(w, PropagateStep(inv[OwnState(w)]))

NextPair ==
  \/ \E w \in Invocations : PairLoop(w)
  \/ \E w \in Invocations : \E h \in PairResponses(w, inv[OwnState(w)].after) : PairFetch(w, h)
  \/ \E w \in Invocations : PairHandle(w)
  \/ \E w \in Invocations : PairWake(w)
  \/ \E w \in Invocations : PairExhausted(w)
  \/ \E w \in Invocations : PairProcess(w)
  \/ \E w \in Invocations : PairPropagate(w)

SpecPair == InitPair /\ [][NextPair]_vars

\* one invocation run on its own from state st against the responses log, up to
\* the point where it has ended or awaits a response the log does not hold
RECURSIVE RunAlone(_, _)
RunAlone(st, responses) ==
  IF st.wpc \in {"done", "aborted"} THEN st
  ELSE IF st.wpc = "loop" THEN RunAlone(LoopStep(st), responses)
  ELSE IF st.epc = "handle" THEN RunAlone(HandleStep(st), responses)
  ELSE IF st.epc = "sleep" THEN RunAlone(WakeStep(st), responses)
  ELSE IF st.epc = "returned" THEN RunAlone(ProcessStep(st), responses)
  ELSE IF st.epc = "threw" THEN RunAlone(PropagateStep(st), responses)
  ELSE IF ~AttemptsRemain(st.attempt, DefaultMaxRetries)
  THEN RunAlone(ExhaustedStep(st), responses)
  ELSE IF responses = <<>> THEN st
  ELSE RunAlone(FetchStep(st, Head(responses)), Tail(responses))

\* C17: under every interleaving of two concurrent fetchAllPages invocations, each
\* is where it would be had it run alone against the responses it received; in
\* particular it returns or throws what it would alone.
C17_AsIfAlone ==
  \A w \in DOMAIN inv :
    RunAlone(inv[w], <<>>) = RunAlone(NewInvocation(PairPath(w)), seen[w])

C17_Witness ==
  /\ inv # <<>>
  /\ inv[1].wpc = "await" /\ inv[1].epc = "sleep" /\ inv[1].attempt = 1
  /\ Len(seen[1]) = 2
  /\ inv[2].wpc = "done" /\ Len(inv[2].returned.a) = MaxPagesBound * PageSize
  /\ Len(seen[2]) = MaxPagesBound + 1

\* C18: a fetchAllPages run starts in FETCHING (the loop head); provided every
\* engine call returns or throws, it reaches DONE (an array returned) or ABORTED (an
\* error thrown), never both, after at most maxPages pages whatever the server
\* answers; once there it stays there and makes no further engine call.
C18_RunEnds ==
  /\ [][(caller = "none" /\ caller' = "walker") => (wpc' = "loop" /\ pageCount' = 0)]_vars
  /\ (caller = "walker") ~> WalkerEnded
  /\ [](pageCount <= maxPages /\ engineCalls <= maxPages)
  /\ [](wpc = "done" => (returned.t = "arr" /\ walkErr = "none"))
  /\ [](wpc = "aborted" => (returned = JUndef /\ walkErr # "none"))
  /\ [][WalkerEnded => UNCHANGED <<wpc, epc, engineCalls, cursorLog, returned, walkErr,
                                   httpAttempts>>]_vars

C18_Witness ==
  /\ wpc = "done" /\ pageCount = MaxPagesBound /\ maxPages = MaxPagesBound
  /\ engineCalls = MaxPagesBound /\ warned /\ endless
  /\ log = <<"transient", "ratelimit", "ok">>

\* C28: fetchAllPages writes the max-pages warning only when the last page it
\* fetched still said hasNextPage: true; a collection whose final page is page
\* number maxPages is returned without the warning.
C28_WarnsOnlyWhenCutShort ==
  [][(wpc # "done" /\ wpc' = "done" /\ pageCount' >= 1 /\ warned')
       => IsOpenPage(engineResult')]_vars

\* C29: every page request of fetchAllPages starts executeGraphQL afresh with
\* attempt = 0 and the default maxRetries = 3, whatever earlier pages consumed; a
\* call makes at most 4 HTTP attempts and a run at most maxPages calls, hence at
\* most maxPages * 4 HTTP attempts.
C29_FreshBudgetPerPage ==
  /\ [][(wpc = "loop" /\ wpc' = "await")
          => (attempt' = 0 /\ httpAttempts' = 0 /\ maxRetries' = DefaultMaxRetries)]_vars
  /\ [](caller = "walker"
          => /\ httpAttempts <= DefaultMaxRetries + 1
             /\ engineCalls <= maxPages
             /\ engineCalls > 0 => maxRetries = DefaultMaxRetries
             /\ engineCalls > 0
                  => (engineCalls - 1) * (DefaultMaxRetries + 1) + httpAttempts
                       <= maxPages * 4)

C29_Witness ==
  /\ caller = "walker" /\ engineCalls = 2 /\ pageCount = 1
  /\ httpAttempts = DefaultMaxRetries + 1 /\ epc = "handle"
  /\ log = <<"transient", "transient", "transient", "ok">>

\* ------------------------------------------------------ sync-services.js
\* names are sequences of characters over the letters H h n and the blank
LowerChar(c) == IF c = "H" THEN "h" ELSE IF c = "N" THEN "n" ELSE c

\* String.prototype.trim
RECURSIVE TrimLeft(_)
TrimLeft(s) == IF s # <<>> /\ Head(s) = " " THEN TrimLeft(Tail(s)) ELSE s
RECURSIVE TrimRight(_)
TrimRight(s) ==
  IF s # <<>> /\ s[Len(s)] = " " THEN TrimRight(SubSeq(s, 1, Len(s) - 1)) ELSE s

\* replace(/\s+/g, ' ')
RECURSIVE CollapseBlanks(_)
CollapseBlanks(s) ==
  IF Len(s) < 2 THEN s
  ELSE IF s[1] = " " /\ s[2] = " " THEN CollapseBlanks(Tail(s))
  ELSE <<s[1]>> \o CollapseBlanks(Tail(s))

\* variant: names are compared as written
NormalizeName_AsWritten(name) == IF name.t # "str" THEN <<>> ELSE name.s

\* normalizeName: '' for a falsy name, else lower case, trimmed, blanks collapsed
NormalizeName(name) ==
  IF ~Truthy(name) THEN <<>>
  ELSE CollapseBlanks(TrimRight(TrimLeft([i \in 1..Len(name.s) |-> LowerChar(name.s[i])])))

JTrue == [t |-> "true"]

Category(name) == [t |-> "obj", name |-> Str(name)]
Service(name, category, externalId) ==
  [t |-> "obj", name |-> Str(name), category |-> category, externalId |-> externalId]

\* service.category?.name || ''
CategoryNameOf(service) ==
  IF service.category.t = "obj" /\ Truthy(service.category.name)
  THEN service.category.name ELSE Str(<<>>)

\* `${normalizeName(category name)}/${normalizeName(service.name)}`
NameKey(service) == <<NormalizeName(CategoryNameOf(service)), NormalizeName(service.name)>>

\* getServiceMatchKey
GetServiceMatchKey(service) ==
  IF Truthy(service.externalId) THEN <<"externalId", service.externalId.s>>
  ELSE <<"name">> \o NameKey(service)

\* getCategoryMatchKey
GetCategoryMatchKey(category) == NormalizeName(category.name)

\* command-line words: --key, --key=value, or a bare value
Flag(key) == [dashes |-> TRUE, key |-> key, eq |-> FALSE, value |-> ""]
FlagEq(key, value) == [dashes |-> TRUE, key |-> key, eq |-> TRUE, value |-> value]
Word(value) == [dashes |-> FALSE, key |-> "", eq |-> FALSE, value |-> value]

\* parseArgs: the value recorded for `key`, scanning argv from position i with the
\* value v found so far
RECURSIVE ParseArgs(_, _, _, _)
ParseArgs(argv, i, key, v) ==
  IF i > Len(argv) THEN v
  ELSE LET arg == argv[i]
       IN IF ~arg.dashes THEN ParseArgs(argv, i + 1, key, v)
          ELSE IF arg.eq
          THEN ParseArgs(argv, i + 1, key, IF arg.key = key THEN Str(arg.value) ELSE v)
          ELSE IF i + 1 <= Len(argv) /\ ~argv[i + 1].dashes /\ argv[i + 1].value # ""
          THEN ParseArgs(argv, i + 2, key,
                         IF arg.key = key THEN Str(argv[i + 1].value) ELSE v)
          ELSE ParseArgs(argv, i + 1, key, IF arg.key = key THEN JTrue ELSE v)

\* variant: the flag is never honoured
IsDryRun_Never(argv) == FALSE

\* args['dry-run'] === true || args['dry-run'] === 'true'
IsDryRun(argv) ==
  LET v == ParseArgs(argv, 1, "dry-run", JUndef)
  IN v = JTrue \/ v = Str("true")

\* Map.prototype.set and Map.prototype.get (undefined for a missing key)
MapSet(m, k, v) == [x \in DOMAIN m \cup {k} |-> IF x = k THEN v ELSE m[x]]
MapGet(m, k) == IF k \in DOMAIN m THEN m[k] ELSE JUndef

\* for (const cat of targetData.categories) targetCategoryMap.set(key, cat)
RECURSIVE CategoryMap(_, _)
CategoryMap(items, m) ==
  IF items = <<>> THEN m
  ELSE CategoryMap(Tail(items), MapSet(m, GetCategoryMatchKey(Head(items)), Head(items)))

\* for (const svc of targetData.services) targetServiceMap.set(key, svc)
RECURSIVE ServiceMap(_, _)
ServiceMap(items, m) ==
  IF items = <<>> THEN m
  ELSE ServiceMap(Tail(items), MapSet(m, GetServiceMatchKey(Head(items)), Head(items)))

\* ... targetServiceByNameMap.set(nameKey, svc)
RECURSIVE ServiceByNameMap(_, _)
ServiceByNameMap(items, m) ==
  IF items = <<>> THEN m
  ELSE ServiceByNameMap(Tail(items), MapSet(m, NameKey(Head(items)), Head(items)))

\* the source categories whose key the target map does not have
RECURSIVE CategoriesToCreate(_, _)
CategoriesToCreate(items, cmap) ==
  IF items = <<>> THEN <<>>
  ELSE (IF GetCategoryMatchKey(Head(items)) \notin DOMAIN cmap THEN <<Head(items)>> ELSE <<>>)
       \o CategoriesToCreate(Tail(items), cmap)

\* what the environments hold
CategoryNames == {<<"n">>, <<"N", " ">>, <<"h">>}
ServiceChoices ==
  {Service(<<"h">>, Category(<<"n">>), JNull),
   Service(<<"H">>, Category(<<"N", " ">>), JNull),
   Service(<<"h">>, Category(<<"n">>), Str(<<"x">>)),
   Service(<<"n">>, Category(<<"h">>), JNull),
   Service(<<"n">>, JNull, JNull)}
SourceCategories == UNION {[1..k -> {Category(n) : n \in CategoryNames}] : k \in 0..MaxSourceItems}
SourceServices == UNION {[1..k -> ServiceChoices] : k \in 0..MaxSourceItems}
TargetCategories == {<<>>, <<Category(<<"N">>)>>}
TargetServices ==
  {<<>>, <<Service(<<"h">>, Category(<<"N">>), JNull)>>,
   <<Service(<<"h">>, Category(<<"N">>), Str(<<"y">>))>>}
ArgvChoices ==
  {<<>>, <<Flag("verbose")>>, <<Flag("dry-run")>>, <<Flag("dry-run"), Flag("verbose")>>,
   <<FlagEq("dry-run", "true")>>, <<Flag("dry-run"), Word("true")>>,
   <<FlagEq("dry-run", "false")>>}

\* main() after the argument checks, about to fetch the source environment
NewSync(argv, source, target) ==
  [pc |-> "fetchSource", argv |-> argv, dryRun |-> IsDryRun(argv),
   source |-> source, target |-> target,
   sourceData |-> JUndef, targetData |-> JUndef,
   targetCategoryMap |-> <<>>, targetServiceMap |-> <<>>, targetServiceByNameMap |-> <<>>,
   categoriesToCreate |-> <<>>, servicesToCreate |-> <<>>,
   servicesToUpdateExternalId |-> <<>>,
   categoriesCreated |-> <<>>, servicesCreated |-> <<>>, externalIdsUpdated |-> <<>>,
   errors |-> <<>>, exitCode |-> JUndef]

Query(op, env) == [op |-> op, env |-> env, input |-> JUndef]
Mutation(op, input) == [op |-> op, env |-> "target", input |-> input]

\* the two fetchAllPages of fetchEnvironmentData(env)
ReadQueries(env) == <<Query("serviceCategories", env), Query("services", env)>>

InitSync ==
  /\ MainIdle /\ ParseIdle /\ PairIdle /\ DiffIdle /\ LibIdle /\ ReqIdle
  /\ \E argv \in ArgvChoices, sc \in SourceCategories, ss \in SourceServices,
        tc \in TargetCategories, ts \in TargetServices :
       sync = NewSync(argv, [categories |-> sc, services |-> ss],
                      [categories |-> tc, services |-> ts])
  /\ sent = <<>>

SyncKeeps == UNCHANGED <<caller, engineVars, walkerVars, parseVars, pairVars, diff, lib, req>>

\* const sourceData = await fetchEnvironmentData(sourceUrl, ...)
SyncFetchSource(ok) ==
  /\ sync.pc = "fetchSource"
  /\ sent' = sent \o ReadQueries("source")
  /\ sync' = IF ok THEN [sync EXCEPT !.pc = "fetchTarget", !.sourceData = sync.source]
             ELSE [sync EXCEPT !.pc = "crashed"]
  /\ SyncKeeps

\* let targetData = await fetchEnvironmentData(targetUrl, ...), then the lookup
\* maps and the list of categories to create
SyncFetchTarget(ok) ==
  /\ sync.pc = "fetchTarget"
  /\ sent' = sent \o ReadQueries("target")
  /\ sync' =
       IF ~ok THEN [sync EXCEPT !.pc = "crashed"]
       ELSE LET cmap == CategoryMap(sync.target.categories, <<>>)
            IN [sync EXCEPT
                  !.pc = "categories", !.targetData = sync.target,
                  !.targetCategoryMap = cmap,
                  !.targetServiceMap = ServiceMap(sync.target.services, <<>>),
                  !.targetServiceByNameMap = ServiceByNameMap(sync.target.services, <<>>),
                  !.categoriesToCreate = CategoriesToCreate(sync.sourceData.categories, cmap)]
  /\ SyncKeeps

\* what a mutation call may come to: a payload with the created object, a payload
\* with errors, or an exception out of executeGraphQL
MutationOutcomes == {"created", "errors", "throws"}

\* the object the target answers a create mutation with
Created(name) == [t |-> "obj", id |-> Str(<<"i">>), name |-> name]
DryRunCategory(name) == [t |-> "obj", id |-> Str(<<"d">>), name |-> name]

\* one iteration of the loop over categoriesToCreate
SyncCreateCategory(outcome) ==
  /\ sync.pc = "categories" /\ sync.categoriesToCreate # <<>>
  /\ LET cat == Head(sync.categoriesToCreate)
         key == GetCategoryMatchKey(cat)
         rest == [sync EXCEPT !.categoriesToCreate = Tail(@)]
     IN IF sync.dryRun
        THEN /\ outcome = "created"
             /\ sent' = sent
             /\ sync' = [rest EXCEPT
                           !.categoriesCreated = Append(@, cat.name),
                           !.targetCategoryMap = MapSet(@, key, DryRunCategory(cat.name))]
        ELSE /\ sent' = Append(sent, Mutation("createServiceCategory", cat))
             /\ sync' =
                  IF outcome = "created"
                  THEN [rest EXCEPT
                          !.categoriesCreated = Append(@, cat.name),
                          !.targetCategoryMap = MapSet(@, key, Created(cat.name))]
                  ELSE [rest EXCEPT !.errors = Append(@, "createCategory")]
  /\ SyncKeeps

\* the source services that need their externalId set in the target
RECURSIVE ServicesToUpdateExternalId(_, _, _)
ServicesToUpdateExternalId(items, smap, byName) ==
  IF items = <<>> THEN <<>>
  ELSE LET sourceSvc == Head(items)
           targetByName == MapGet(byName, NameKey(sourceSvc))
       IN (IF /\ ~Truthy(MapGet(smap, GetServiceMatchKey(sourceSvc)))
              /\ Truthy(targetByName) /\ Truthy(sourceSvc.externalId)
              /\ ~Truthy(targetByName.externalId)
           THEN <<[source |-> sourceSvc, target |-> targetByName]>> ELSE <<>>)
          \o ServicesToUpdateExternalId(Tail(items), smap, byName)

\* the source services found in the target neither by key nor by name
RECURSIVE ServicesToCreate(_, _, _)
ServicesToCreate(items, smap, byName) ==
  IF items = <<>> THEN <<>>
  ELSE LET sourceSvc == Head(items)
       IN (IF /\ ~Truthy(MapGet(smap, GetServiceMatchKey(sourceSvc)))
              /\ ~Truthy(MapGet(byName, NameKey(sourceSvc)))
           THEN <<sourceSvc>> ELSE <<>>)
          \o ServicesToCreate(Tail(items), smap, byName)

\* step 2: the loop that sorts the source services
SyncPlanServices ==
  /\ sync.pc = "categories" /\ sync.categoriesToCreate = <<>>
  /\ sync' = [sync EXCEPT
                !.pc = "services",
                !.servicesToCreate =
                   ServicesToCreate(sync.sourceData.services, sync.targetServiceMap,
                                    sync.targetServiceByNameMap),
                !.servicesToUpdateExternalId =
                   ServicesToUpdateExternalId(sync.sourceData.services, sync.targetServiceMap,
                                              sync.targetServiceByNameMap)]
  /\ UNCHANGED sent
  /\ SyncKeeps

\* one iteration of the loop over servicesToCreate
SyncCreateService(outcome) ==
  /\ sync.pc = "services" /\ sync.servicesToCreate # <<>>
  /\ LET svc == Head(sync.servicesToCreate)
         rest == [sync EXCEPT !.servicesToCreate = Tail(@)]
     IN IF svc.category.t # "obj"
        THEN \* getCategoryMatchKey(svc.category) reads name of null
             outcome = "throws" /\ sent' = sent /\ sync' = [sync EXCEPT !.pc = "crashed"]
        ELSE IF ~Truthy(MapGet(sync.targetCategoryMap, GetCategoryMatchKey(svc.category)))
        THEN /\ outcome = "errors" /\ sent' = sent
             /\ sync' = [rest EXCEPT !.errors = Append(@, "createService")]
        ELSE IF sync.dryRun
        THEN /\ outcome = "created" /\ sent' = sent
             /\ sync' = [rest EXCEPT !.servicesCreated = Append(@, svc.name)]
        ELSE /\ sent' = Append(sent, Mutation("createService", svc))
             /\ sync' = IF outcome = "created"
                        THEN [rest EXCEPT !.servicesCreated = Append(@, svc.name)]
                        ELSE [rest EXCEPT !.errors = Append(@, "createService")]
  /\ SyncKeeps

\* one iteration of the loop over servicesToUpdateExternalId, entered once the
\* services loop is over
SyncUpdateExternalId(outcome) ==
  /\ sync.pc = "services" /\ sync.servicesToCreate = <<>>
  /\ sync.servicesToUpdateExternalId # <<>>
  /\ LET pair == Head(sync.servicesToUpdateExternalId)
         rest == [sync EXCEPT !.servicesToUpdateExternalId = Tail(@)]
     IN IF sync.dryRun
        THEN /\ outcome = "created" /\ sent' = sent
             /\ sync' = [rest EXCEPT !.externalIdsUpdated = Append(@, pair.source.name)]
        ELSE /\ sent' = Append(sent, Mutation("updateService", pair.source))
             /\ sync' = IF outcome = "created"
                        THEN [rest EXCEPT !.externalIdsUpdated = Append(@, pair.source.name)]
                        ELSE [rest EXCEPT !.errors = Append(@, "updateExternalId")]
  /\ SyncKeeps

\* the summary, the JSON output and the exit code
SyncSummary ==
  /\ sync.pc = "services" /\ sync.servicesToCreate = <<>>
  /\ sync.servicesToUpdateExternalId = <<>>
  /\ sync' = [sync EXCEPT !.pc = "done",
                          !.exitCode = IF Len(sync.errors) > 0 THEN Num(1) ELSE Num(0)]
  /\ UNCHANGED sent
  /\ SyncKeeps

NextSync ==
  \/ \E ok \in BOOLEAN : SyncFetchSource(ok)
  \/ \E ok \in BOOLEAN : SyncFetchTarget(ok)
  \/ \E outcome \in MutationOutcomes : SyncCreateCategory(outcome)
  \/ SyncPlanServices
  \/ \E outcome \in MutationOutcomes : SyncCreateService(outcome)
  \/ \E outcome \in MutationOutcomes : SyncUpdateExternalId(outcome)
  \/ SyncSummary

SpecSync == InitSync /\ [][NextSync]_vars

IsMutation(q) == q.op \in {"createServiceCategory", "createService", "updateService"}

\* the command line asks for a dry run: --dry-run on its own, or with the value true
AsksForDryRun(argv) ==
  \E i \in 1..Len(argv) :
    \/ argv[i] = FlagEq("dry-run", "true")
    \/ /\ argv[i] = Flag("dry-run")
       /\ i = Len(argv) \/ argv[i + 1].dashes \/ argv[i + 1] = Word("true")

\* C21: in a run started with --dry-run no create or update mutation is sent: the
\* only operations sent are the queries that list the categories and the services
\* of source and target.
C21_DryRunSendsNoMutation ==
  (sync.pc # "idle" /\ AsksForDryRun(sync.argv))
    => \A i \in 1..Len(sent) : sent[i].op \in {"serviceCategories", "services"}

C21_Witness ==
  /\ sync.pc = "done" /\ sync.argv = <<Flag("dry-run")>>
  /\ Len(sync.categoriesCreated) = 1 /\ Len(sync.servicesCreated) = 1
  /\ Len(sync.externalIdsUpdated) = 1
  /\ sent = ReadQueries("source") \o ReadQueries("target")

\* C30: in a run that is not a dry run, no two createServiceCategory mutations
\* carry names with the same normalized form, and no two createService mutations
\* carry services with the same match key.
C30_NoDuplicateCreates ==
  \A i, j \in 1..Len(sent) :
    (i < j /\ sent[i].op = sent[j].op)
      => /\ sent[i].op = "createServiceCategory"
              => GetCategoryMatchKey(sent[i].input) # GetCategoryMatchKey(sent[j].input)
         /\ sent[i].op = "createService"
              => GetServiceMatchKey(sent[i].input) # GetServiceMatchKey(sent[j].input)

\* ------------------------------------------------------ diff-services.js
\* String.prototype.localeCompare on names: letters first compared without case,
\* the blank before every letter; on a tie lower case before upper case
LetterRank(c) == IF c = " " THEN 0 ELSE IF LowerChar(c) = "h" THEN 1 ELSE 2
CaseRank(c) == IF c = LowerChar(c) THEN 0 ELSE 1

\* -1, 0 or 1 comparing the sequences a and b position by position by rank r;
\* Rank is "letter" or "case"
RankOf(kind, c) == IF kind = "letter" THEN LetterRank(c) ELSE CaseRank(c)
RECURSIVE CompareBy(_, _, _)
CompareBy(kind, a, b) ==
  IF a = <<>> /\ b = <<>> THEN 0
  ELSE IF a = <<>> THEN 0 - 1
  ELSE IF b = <<>> THEN 1
  ELSE IF RankOf(kind, Head(a)) < RankOf(kind, Head(b)) THEN 0 - 1
  ELSE IF RankOf(kind, Head(a)) > RankOf(kind, Head(b)) THEN 1
  ELSE CompareBy(kind, Tail(a), Tail(b))

LocaleCompare(a, b) ==
  IF CompareBy("letter", a, b) # 0 THEN CompareBy("letter", a, b) ELSE CompareBy("case", a, b)

\* Array.prototype.sort((a, b) => a.name.localeCompare(b.name)): stable insertion
RECURSIVE InsertByName(_, _)
InsertByName(x, sorted) ==
  IF sorted = <<>> THEN <<x>>
  ELSE IF LocaleCompare(x.name.s, Head(sorted).name.s) < 0 THEN <<x>> \o sorted
  ELSE <<Head(sorted)>> \o InsertByName(x, Tail(sorted))
RECURSIVE SortByName(_)
SortByName(items) ==
  IF items = <<>> THEN <<>>
  ELSE InsertByName(items[Len(items)], SortByName(SubSeq(items, 1, Len(items) - 1)))

\* the entry pushed to externalIdMismatches
Mismatch(sourceSvc, targetByName) ==
  [name |-> sourceSvc.name, sourceExternalId |-> sourceSvc.externalId,
   targetExternalId |-> targetByName.externalId]

\* the loop over sourceData.services, externalIdMismatches part
RECURSIVE ExternalIdMismatches(_, _, _)
ExternalIdMismatches(items, smap, byName) ==
  IF items = <<>> THEN <<>>
  ELSE LET sourceSvc == Head(items)
           targetByName == MapGet(byName, NameKey(sourceSvc))
       IN (IF /\ ~Truthy(MapGet(smap, GetServiceMatchKey(sourceSvc)))
              /\ Truthy(targetByName) /\ Truthy(sourceSvc.externalId)
              /\ ~Truthy(targetByName.externalId)
           THEN <<Mismatch(sourceSvc, targetByName)>> ELSE <<>>)
          \o ExternalIdMismatches(Tail(items), smap, byName)

NewDiff(source, target) ==
  [pc |-> "fetch", source |-> source, target |-> target,
   missingCategories |-> <<>>, missingServices |-> <<>>, externalIdMismatches |-> <<>>,
   exitCode |-> JUndef]

InitDiff ==
  /\ MainIdle /\ ParseIdle /\ PairIdle /\ SyncIdle /\ LibIdle /\ ReqIdle
  /\ \E sc \in SourceCategories, ss \in SourceServices,
        tc \in TargetCategories, ts \in TargetServices :
       diff = NewDiff([categories |-> sc, services |-> ss],
                      [categories |-> tc, services |-> ts])

DiffKeeps == UNCHANGED <<caller, engineVars, walkerVars, parseVars, pairVars, syncVars, lib, req>>

\* the two fetchEnvironmentData calls: both answer, or one rejects and main's
\* catch handler exits with code 1
DiffFetch(ok) ==
  /\ diff.pc = "fetch"
  /\ diff' = IF ok THEN [diff EXCEPT !.pc = "compare"]
             ELSE [diff EXCEPT !.pc = "failed", !.exitCode = Num(1)]
  /\ DiffKeeps

\* the lookup maps, the three lists, the sorts, the JSON output and the exit code
DiffCompare ==
  /\ diff.pc = "compare"
  /\ LET cmap == CategoryMap(diff.target.categories, <<>>)
         smap == ServiceMap(diff.target.services, <<>>)
         byName == ServiceByNameMap(diff.target.services, <<>>)
         mc == SortByName(CategoriesToCreate(diff.source.categories, cmap))
         ms == ServicesToCreate(diff.source.services, smap, byName)
         mm == SortByName(ExternalIdMismatches(diff.source.services, smap, byName))
     IN diff' = [diff EXCEPT
                   !.pc = "done", !.missingCategories = mc, !.missingServices = ms,
                   !.externalIdMismatches = mm,
                   !.exitCode = IF Len(mc) > 0 \/ Len(ms) > 0 \/ Len(mm) > 0
                                THEN Num(1) ELSE Num(0)]
  /\ DiffKeeps

NextDiff ==
  \/ \E ok \in BOOLEAN : DiffFetch(ok)
  \/ DiffCompare

SpecDiff == InitDiff /\ [][NextDiff]_vars

\* the externalId as the scripts read it: '' for null or undefined
ExternalIdOf(svc) == IF Truthy(svc.externalId) THEN svc.externalId.s ELSE <<>>

\* C22: every source service whose externalId differs from that of the target
\* service with the same normalized category and service names is listed in
\* externalIdMismatches, also when the target's externalId is set but different.
C22_ReportsEveryMismatch ==
  diff.pc = "done"
    => \A i \in 1..Len(diff.source.services), j \in 1..Len(diff.target.services) :
         LET src == diff.source.services[i]
             tgt == diff.target.services[j]
         IN (NameKey(src) = NameKey(tgt) /\ ExternalIdOf(src) # ExternalIdOf(tgt))
              => \E k \in 1..Len(diff.externalIdMismatches) :
                   /\ diff.externalIdMismatches[k].name = src.name
                   /\ diff.externalIdMismatches[k].sourceExternalId = src.externalId

\* ================================================== library functions
\* The account, workspace and URL helpers of the reader skills are pure
\* functions: SpecLib draws one call from bounded argument sets and applies
\* the function to it.

MaxAccounts == 2     \* entries of an accounts map
MaxAliases == 2      \* entries of a workspaces map
MaxPathParts == 4    \* path segments of a URL

\* a thrown SkillError, by its code
SkillError(code) == [t |-> "threw", code |-> code]

\* ---------------------------------------------------------- resolveAccount
AccountNames == {<<"a">>, <<"b">>, <<"c">>}

\* the Map parseAccounts builds, as its entries in insertion order
AccountMaps ==
  LET Orders == UNION {[1..n -> AccountNames] : n \in 0..MaxAccounts}
  IN {[i \in DOMAIN o |-> [name |-> Str(o[i]), key |-> Str(<<"k">> \o o[i])]] :
        o \in {p \in Orders : \A i, j \in DOMAIN p : p[i] = p[j] => i = j}}

\* the value of args.account: absent, a bare flag, or a string
SpecifiedNames == {JUndef, JTrue, Str(<<>>)} \cup {Str(n) : n \in AccountNames}

HasEntry(entries, name) == \E i \in 1..Len(entries) : entries[i].name = name

\* Map.prototype.get
EntryGet(entries, name) ==
  IF HasEntry(entries, name)
  THEN entries[CHOOSE i \in 1..Len(entries) : entries[i].name = name].key
  ELSE JUndef

\* the object resolveAccount returns: {name, apiKey} in the Iterable skill,
\* {name, token} in the Asana skill
Account(skill, name, key) ==
  IF skill = "ITERABLE" THEN [t |-> "obj", name |-> name, apiKey |-> key]
  ELSE [t |-> "obj", name |-> name, token |-> key]

ResolveAccount(skill, accounts, specifiedName) ==
  IF Len(accounts) = 0 THEN SkillError(<<skill, "AUTH_MISSING">>)
  ELSE IF Len(accounts) = 1
    THEN Account(skill, accounts[1].name, accounts[1].key)
  ELSE IF ~Truthy(specifiedName) THEN SkillError(<<skill, "ACCOUNT_AMBIGUOUS">>)
  ELSE IF ~Truthy(EntryGet(accounts, specifiedName))
    THEN SkillError(<<skill, "ACCOUNT_NOT_FOUND">>)
  ELSE Account(skill, specifiedName, EntryGet(accounts, specifiedName))

AccountCalls ==
  {[pc |-> "call", fn |-> "resolveAccount",
    args |-> [skill |-> k, accounts |-> m, specifiedName |-> n]] :
     k \in {"ITERABLE", "ASANA"}, m \in AccountMaps, n \in SpecifiedNames}

CallResolveAccount ==
  /\ lib.pc = "call" /\ lib.fn = "resolveAccount"
  /\ lib' = [pc |-> "done", fn |-> lib.fn, args |-> lib.args,
             result |-> ResolveAccount(lib.args.skill, lib.args.accounts,
                                       lib.args.specifiedName)]

\* -------------------------------------------------------- resolveWorkspace
\* String.prototype.toLowerCase
RECURSIVE ToLowerCase(_)
ToLowerCase(s) == IF s = <<>> THEN <<>> ELSE <<LowerChar(Head(s))>> \o ToLowerCase(Tail(s))

\* String.prototype.includes
Includes(hay, needle) ==
  \E i \in 0..(Len(hay) - Len(needle)) : SubSeq(hay, i + 1, i + Len(needle)) = needle

\* the aliases of SLACK_WORKSPACES, which parseWorkspaces stores in lower case
Aliases == {<<"h">>, <<"n">>, <<"h", "n">>}

WorkspaceMaps ==
  LET Orders == UNION {[1..n -> Aliases] : n \in 0..MaxAliases}
  IN {[i \in DOMAIN o |-> [name |-> Str(o[i]), key |-> Str(<<"t">> \o o[i])]] :
        o \in {p \in Orders : \A i, j \in DOMAIN p : p[i] = p[j] => i = j}}

WorkspaceFlags == {JUndef, Str(<<"h">>), Str(<<"N">>), Str(<<"c">>)}

UrlDomains ==
  {JUndef} \cup {Str(d) : d \in {<<"h">>, <<"N">>, <<"h", "n">>, <<"H", "N">>,
                                 <<"n", "h">>, <<"c">>}}

Workspace(name, token) == [t |-> "obj", name |-> name, token |-> token]

\* the alias matches the domain in the loop's sense
SubstringMatch(alias, domain) == Includes(domain, alias) \/ Includes(alias, domain)

ResolveWorkspace(workspaces, specifiedName, urlDomain) ==
  LET normalizedName == Str(ToLowerCase(specifiedName.s))
      normalizedDomain == Str(ToLowerCase(urlDomain.s))
      matching == {i \in 1..Len(workspaces) :
                     SubstringMatch(workspaces[i].name.s, normalizedDomain.s)}
      first == CHOOSE i \in matching : \A j \in matching : i <= j
  IN IF Len(workspaces) = 0 THEN SkillError("SLACK_AUTH_MISSING")
     ELSE IF Truthy(specifiedName)
       THEN IF ~Truthy(EntryGet(workspaces, normalizedName))
            THEN SkillError("SLACK_WORKSPACE_NOT_FOUND")
            ELSE Workspace(normalizedName, EntryGet(workspaces, normalizedName))
     ELSE IF Truthy(urlDomain) /\ HasEntry(workspaces, normalizedDomain)
       THEN Workspace(normalizedDomain, EntryGet(workspaces, normalizedDomain))
     ELSE IF Truthy(urlDomain) /\ matching # {}
       THEN Workspace(workspaces[first].name, workspaces[first].key)
     ELSE IF Len(workspaces) = 1
       THEN Workspace(workspaces[1].name, workspaces[1].key)
     ELSE SkillError("SLACK_WORKSPACE_AMBIGUOUS")

WorkspaceCalls ==
  {[pc |-> "call", fn |-> "resolveWorkspace",
    args |-> [workspaces |-> m, specifiedName |-> n, urlDomain |-> d]] :
     m \in WorkspaceMaps, n \in WorkspaceFlags, d \in UrlDomains}

CallResolveWorkspace ==
  /\ lib.pc = "call" /\ lib.fn = "resolveWorkspace"
  /\ lib' = [pc |-> "done", fn |-> lib.fn, args |-> lib.args,
             result |-> ResolveWorkspace(lib.args.workspaces, lib.args.specifiedName,
                                         lib.args.urlDomain)]

\* ------------------------------------------------------------ URL parsing
\* A URL string is a sequence of tokens: the scheme "https://", the separators
\* ".", "/" and "?", single characters, and whole lower-case words ("slack",
\* "archives", ...) that stand for their letters.

UpperChars == {"C", "D", "G", "W", "X"}

RECURSIVE TakeUntil(_, _)
TakeUntil(s, stops) ==
  IF s = <<>> \/ Head(s) \in stops THEN <<>> ELSE <<Head(s)>> \o TakeUntil(Tail(s), stops)

RECURSIVE DropUntil(_, _)
DropUntil(s, stops) ==
  IF s = <<>> \/ Head(s) \in stops THEN s ELSE DropUntil(Tail(s), stops)

\* String.prototype.split with a one-character separator
RECURSIVE Split(_, _)
Split(s, sep) ==
  LET first == TakeUntil(s, {sep})
      rest == DropUntil(s, {sep})
  IN IF rest = <<>> THEN <<first>> ELSE <<first>> \o Split(Tail(rest), sep)

\* Array.prototype.filter(Boolean) on an array of strings
RECURSIVE FilterBoolean(_)
FilterBoolean(a) ==
  IF a = <<>> THEN <<>>
  ELSE IF Head(a) = <<>> THEN FilterBoolean(Tail(a))
  ELSE <<Head(a)>> \o FilterBoolean(Tail(a))

\* new URL(url): the hostname, pathname and search of an https URL, or a throw
NewURL(s) ==
  LET rest == Tail(s)
      hostname == TakeUntil(rest, {"/", "?"})
      afterHost == DropUntil(rest, {"/", "?"})
      pathname == TakeUntil(afterHost, {"?"})
  IN IF s = <<>> \/ Head(s) # "https://" \/ hostname = <<>> THEN [t |-> "threw"]
     ELSE [t |-> "obj", hostname |-> hostname,
           pathname |-> IF pathname = <<>> THEN <<"/">> ELSE pathname,
           search |-> DropUntil(afterHost, {"?"})]

\* /^\d+$/
IsDigits(s) == s # <<>> /\ \A i \in 1..Len(s) : s[i] \in DigitChars

\* Array.prototype.indexOf, counted from 1; 0 when absent
IndexOf(a, x) ==
  IF \E i \in 1..Len(a) : a[i] = x
  THEN CHOOSE i \in 1..Len(a) : a[i] = x /\ \A j \in 1..(i - 1) : a[j] # x
  ELSE 0

\* the text of the URL with the given host labels, path segments and search
RECURSIVE JoinWith(_, _)
JoinWith(parts, sep) ==
  IF parts = <<>> THEN <<>>
  ELSE IF Len(parts) = 1 THEN Head(parts)
  ELSE Head(parts) \o <<sep>> \o JoinWith(Tail(parts), sep)

RECURSIVE PathText(_)
PathText(segments) ==
  IF segments = <<>> THEN <<>> ELSE <<"/">> \o Head(segments) \o PathText(Tail(segments))

UrlText(host, segments, search) ==
  Str(<<"https://">> \o JoinWith(host, ".") \o PathText(segments) \o search)

Paths(segs) == UNION {[1..n -> segs] : n \in 0..MaxPathParts}

Searches == {<<>>, <<"?", "q">>}

\* what a caller may pass that is not a URL
NotUrls == {JUndef, JNull, Num(7), Str(<<>>), Str(<<"x">>)}

\* ----------------------------------------------------------- parseAsanaUrl
ParseAsanaUrl(url) ==
  LET parsed == NewURL(url.s)
      pathParts == FilterBoolean(Split(Tail(parsed.pathname), "/"))
      taskIndex == IndexOf(pathParts, <<"task">>)
      projectIndex == IndexOf(pathParts, <<"project">>)
      newTaskGid == pathParts[taskIndex + 1]
      projectGid == pathParts[2]
      taskGid == pathParts[3]
  IN IF url.t # "str" \/ ~Truthy(url) THEN SkillError("ASANA_URL_INVALID")
     ELSE IF parsed.t = "threw" THEN SkillError("ASANA_URL_INVALID")
     ELSE IF parsed.hostname # <<"app", ".", "asana", ".", "com">>
       THEN SkillError("ASANA_URL_INVALID")
     ELSE IF pathParts # <<>> /\ pathParts[1] = <<"1">> /\ taskIndex # 0
       THEN IF taskIndex + 1 > Len(pathParts) THEN SkillError("ASANA_URL_INVALID")
            ELSE IF ~IsDigits(newTaskGid) THEN SkillError("ASANA_URL_INVALID")
            ELSE [t |-> "obj", taskGid |-> Str(newTaskGid),
                  projectGid |-> IF projectIndex # 0 /\ projectIndex + 1 <= Len(pathParts)
                                 THEN Str(pathParts[projectIndex + 1]) ELSE JNull,
                  workspaceGid |-> IF Len(pathParts) >= 2 /\ IsDigits(pathParts[2])
                                   THEN Str(pathParts[2]) ELSE JNull]
     ELSE IF Len(pathParts) < 3 \/ pathParts[1] # <<"0">>
       THEN SkillError("ASANA_URL_INVALID")
     ELSE IF ~IsDigits(taskGid) THEN SkillError("ASANA_URL_INVALID")
     ELSE IF ~IsDigits(projectGid) THEN SkillError("ASANA_URL_INVALID")
     ELSE [t |-> "obj", taskGid |-> Str(taskGid),
           projectGid |-> IF projectGid = <<"0">> THEN JNull ELSE Str(projectGid),
           workspaceGid |-> JNull]

AsanaHosts == {<<<<"app">>, <<"asana">>, <<"com">>>>, <<<<"asana">>, <<"com">>>>,
               <<<<"acme">>, <<"slack">>, <<"com">>>>}

AsanaSegments == {<<"0">>, <<"1">>, <<"7">>, <<"1", "2">>, <<"x">>, <<"f">>, <<"task">>, <<>>}

AsanaUrlCalls ==
  {[pc |-> "call", fn |-> "parseAsanaUrl", args |-> [url |-> u]] :
     u \in NotUrls \cup {UrlText(h, p, q) : h \in AsanaHosts, p \in Paths(AsanaSegments),
                                             q \in Searches}}

CallParseAsanaUrl ==
  /\ lib.pc = "call" /\ lib.fn = "parseAsanaUrl"
  /\ lib' = [pc |-> "done", fn |-> lib.fn, args |-> lib.args,
             result |-> ParseAsanaUrl(lib.args.url)]

\* ----------------------------------------------------------- parseSlackUrl
\* /^[CDGW][A-Z0-9]+$/
IsChannelId(s) ==
  /\ Len(s) >= 2 /\ s[1] \in {"C", "D", "G", "W"}
  /\ \A i \in 2..Len(s) : s[i] \in UpperChars \cup DigitChars

\* /^\d{16}$/
IsSixteenDigits(s) == Len(s) = 16 /\ IsDigits(s)

ParseSlackUrl(url) ==
  LET parsed == NewURL(url.s)
      hostParts == Split(parsed.hostname, ".")
      pathParts == FilterBoolean(Split(Tail(parsed.pathname), "/"))
      channelId == pathParts[2]
      tsWithPrefix == pathParts[3]
      tsDigits == Tail(tsWithPrefix)
  IN IF url.t # "str" \/ ~Truthy(url) THEN SkillError("SLACK_URL_INVALID")
     ELSE IF parsed.t = "threw" THEN SkillError("SLACK_URL_INVALID")
     ELSE IF Len(hostParts) < 2 \/ ~\E i \in 1..Len(hostParts) : hostParts[i] = <<"slack">>
       THEN SkillError("SLACK_URL_INVALID")
     ELSE IF Len(pathParts) < 3 \/ pathParts[1] # <<"archives">>
       THEN SkillError("SLACK_URL_INVALID")
     ELSE IF ~IsChannelId(channelId) THEN SkillError("SLACK_URL_INVALID")
     ELSE IF Head(tsWithPrefix) # "p" THEN SkillError("SLACK_URL_INVALID")
     ELSE IF ~IsSixteenDigits(tsDigits) THEN SkillError("SLACK_URL_INVALID")
     ELSE [t |-> "obj", workspace |-> Str(hostParts[1]), channelId |-> Str(channelId),
           messageTs |-> Str(SubSeq(tsDigits, 1, 10) \o <<".">> \o SubSeq(tsDigits, 11, 16))]

SixteenDigits == <<"1", "6", "9", "9", "4", "8", "5", "1", "2", "3",
                   "4", "5", "6", "7", "8", "9">>

SlackHosts == {<<<<"acme">>, <<"slack">>, <<"com">>>>, <<<<"slack">>, <<"com">>>>,
               <<<<"slack">>, <<"evil">>, <<"com">>>>, <<<<"app">>, <<"asana">>, <<"com">>>>,
               <<<<"localhost">>>>}

SlackSegments == {<<"archives">>, <<"C", "1">>, <<"c", "1">>, <<"C">>,
                  <<"p">> \o SixteenDigits, <<"p">> \o Tail(SixteenDigits),
                  SixteenDigits, <<>>}

SlackUrlCalls ==
  {[pc |-> "call", fn |-> "parseSlackUrl", args |-> [url |-> u]] :
     u \in NotUrls \cup {UrlText(h, p, q) : h \in SlackHosts, p \in Paths(SlackSegments),
                                             q \in Searches}}

CallParseSlackUrl ==
  /\ lib.pc = "call" /\ lib.fn = "parseSlackUrl"
  /\ lib' = [pc |-> "done", fn |-> lib.fn, args |-> lib.args,
             result |-> ParseSlackUrl(lib.args.url)]

\* ------------------------------------------------------------------ SpecLib
InitLib ==
  /\ MainIdle /\ ParseIdle /\ PairIdle /\ SyncIdle /\ DiffIdle /\ ReqIdle
  /\ lib \in AccountCalls \cup WorkspaceCalls \cup AsanaUrlCalls \cup SlackUrlCalls

LibKeeps ==
  UNCHANGED <<caller, engineVars, walkerVars, parseVars, pairVars, syncVars, diff, req>>

NextLib ==
  \/ CallResolveAccount /\ LibKeeps
  \/ CallResolveWorkspace /\ LibKeeps
  \/ CallParseAsanaUrl /\ LibKeeps
  \/ CallParseSlackUrl /\ LibKeeps

SpecLib == InitLib /\ [][NextLib]_vars

\* C23: with a non-empty accounts map and --account naming an account that is
\* not a key of the map, resolveAccount throws ACCOUNT_NOT_FOUND and returns
\* no account.
C23_UnknownAccountFails ==
  (/\ lib.pc = "done" /\ lib.fn = "resolveAccount"
   /\ Len(lib.args.accounts) > 0
   /\ lib.args.specifiedName.t = "str" /\ Truthy(lib.args.specifiedName)
   /\ ~HasEntry(lib.args.accounts, lib.args.specifiedName))
    => lib.result = SkillError(<<lib.args.skill, "ACCOUNT_NOT_FOUND">>)

\* the aliases the URL domain identifies: the alias equal to it, else the only
\* alias that contains it or is contained in it
IdentifiedAliases(workspaces, urlDomain) ==
  LET dom == ToLowerCase(urlDomain.s)
      exact == {i \in 1..Len(workspaces) : workspaces[i].name.s = dom}
      matches == {i \in 1..Len(workspaces) : SubstringMatch(workspaces[i].name.s, dom)}
  IN IF ~Truthy(urlDomain) THEN {}
     ELSE IF exact # {} THEN exact
     ELSE IF Cardinality(matches) = 1 THEN matches
     ELSE {}

\* C24: with two or more workspaces and no --workspace flag, resolveWorkspace
\* returns the alias the URL domain identifies, and throws
\* SLACK_WORKSPACE_AMBIGUOUS when the domain matches none or several.
C24_NeverPicksAmongSeveral ==
  (/\ lib.pc = "done" /\ lib.fn = "resolveWorkspace"
   /\ Len(lib.args.workspaces) >= 2
   /\ ~Truthy(lib.args.specifiedName))
    => LET ids == IdentifiedAliases(lib.args.workspaces, lib.args.urlDomain)
       IN IF ids = {} THEN lib.result = SkillError("SLACK_WORKSPACE_AMBIGUOUS")
          ELSE \E i \in ids :
                 lib.result = Workspace(lib.args.workspaces[i].name,
                                        lib.args.workspaces[i].key)

\* C25: for a classic URL https://app.asana.com/0/P/T with numeric P and T,
\* with or without /f and a query string, parseAsanaUrl returns exactly
\* {taskGid: T, projectGid: P or null when P is '0'}, with no other key.
C25_ClassicUrlTwoKeys ==
  (lib.pc = "done" /\ lib.fn = "parseAsanaUrl")
    => \A p \in AsanaSegments, g \in AsanaSegments, q \in Searches,
          f \in {<<>>, <<<<"f">>>>} :
         (/\ IsDigits(p) /\ IsDigits(g)
          /\ lib.args.url = UrlText(<<<<"app">>, <<"asana">>, <<"com">>>>,
                                    <<<<"0">>, p, g>> \o f, q))
           => lib.result = [t |-> "obj", taskGid |-> Str(g),
                            projectGid |-> IF p = <<"0">> THEN JNull ELSE Str(p)]

\* the string is a permalink https://<workspace>.slack.com/archives/<channel
\* id>/p<16 digits>; a query string and further path segments are tolerated
IsSlackPermalink(url) ==
  /\ url.t = "str"
  /\ LET parsed == NewURL(url.s)
         hostParts == Split(parsed.hostname, ".")
         pathParts == FilterBoolean(Split(Tail(parsed.pathname), "/"))
     IN /\ parsed.t = "obj"
        /\ Len(hostParts) = 3 /\ hostParts[1] # <<>>
        /\ hostParts[2] = <<"slack">> /\ hostParts[3] = <<"com">>
        /\ Len(pathParts) >= 3 /\ pathParts[1] = <<"archives">>
        /\ IsChannelId(pathParts[2])
        /\ Len(pathParts[3]) = 17 /\ pathParts[3][1] = "p" /\ IsDigits(Tail(pathParts[3]))

\* C26: parseSlackUrl throws SLACK_URL_INVALID for every input that is not a
\* Slack permalink, and for a permalink returns messageTs made of the first 10
\* timestamp digits, a dot and the last 6 digits.
C26_OnlyPermalinksAccepted ==
  (lib.pc = "done" /\ lib.fn = "parseSlackUrl")
    => IF IsSlackPermalink(lib.args.url)
       THEN LET ts == FilterBoolean(Split(Tail(NewURL(lib.args.url.s).pathname), "/"))[3]
            IN /\ lib.result.t = "obj"
               /\ lib.result.messageTs = Str(SubSeq(ts, 2, 11) \o <<".">> \o SubSeq(ts, 12, 17))
       ELSE lib.result = SkillError("SLACK_URL_INVALID")

\* ============================================ the Iterable client's request()
MaxIterableRetries == 2     \* largest options.retries; 2 is the default
RetryDelayMs == 500         \* default of options.retryDelayMs

\* what one fetch yields: a response with its status, or an exception thrown by
\* fetch() or by the reading of the body
Rejected == [t |-> "threw"]
IterableResponse(status) == [t |-> "response", status |-> status]
Statuses == {200, 204, 302, 400, 401, 403, 404, 429, 500, 503}
FetchOutcomes == {Rejected} \cup {IterableResponse(n) : n \in Statuses}

Sleep(att) == [kind |-> "sleep", ms |-> RetryDelayMs * (att + 1)]
Throw(code) == [kind |-> "throw", error |-> SkillError(code)]

\* the variant that retries every answer that is not ok
AfterFetch_RetryAny(outcome, att, retries) ==
  IF outcome.t = "response" /\ IsOk(outcome.status) THEN [kind |-> "return"]
  ELSE IF att < retries THEN Sleep(att)
  ELSE Throw("ITERABLE_API_ERROR")

\* the body of the for loop after the fetch: return, throw, or sleep and continue
AfterFetch(outcome, att, retries) ==
  IF outcome.t = "threw"
  THEN IF att < retries THEN Sleep(att) ELSE Throw("ITERABLE_API_ERROR")
  ELSE IF IsOk(outcome.status) THEN [kind |-> "return"]
  ELSE IF outcome.status = 401 THEN Throw("ITERABLE_AUTH_INVALID")
  ELSE IF outcome.status = 404 THEN Throw("ITERABLE_NOT_FOUND")
  ELSE IF outcome.status = 429
    THEN IF att < retries THEN Sleep(att) ELSE Throw("ITERABLE_RATE_LIMITED")
  ELSE IF outcome.status >= 500 /\ att < retries THEN Sleep(att)
  ELSE Throw("ITERABLE_API_ERROR")

NewRequest(retries) ==
  [pc |-> "fetch", retries |-> retries, attempt |-> 0, fetches |-> 0, answers |-> <<>>,
   delay |-> JUndef, result |-> JUndef]

InitReq ==
  /\ MainIdle /\ ParseIdle /\ PairIdle /\ SyncIdle /\ DiffIdle /\ LibIdle
  /\ \E retries \in 0..MaxIterableRetries : req = NewRequest(retries)

ReqKeeps ==
  UNCHANGED <<caller, engineVars, walkerVars, parseVars, pairVars, syncVars, diff, lib>>

\* await fetch(...) and the reading of the body
ReqFetch(outcome) ==
  /\ req.pc = "fetch"
  /\ req' = [req EXCEPT !.pc = "handle", !.fetches = @ + 1,
                        !.answers = Append(@, outcome)]
  /\ ReqKeeps

\* the rest of the loop body
ReqHandle ==
  /\ req.pc = "handle"
  /\ LET next == AfterFetch(req.answers[Len(req.answers)], req.attempt, req.retries)
     IN req' = CASE next.kind = "return" ->
                      [req EXCEPT !.pc = "returned", !.result = [t |-> "body"]]
                 [] next.kind = "throw" ->
                      [req EXCEPT !.pc = "threw", !.result = next.error]
                 [] next.kind = "sleep" ->
                      [req EXCEPT !.pc = "sleep", !.delay = Num(next.ms)]
  /\ ReqKeeps

\* the sleep ends; continue: attempt++ and the loop test
ReqWake ==
  /\ req.pc = "sleep"
  /\ req' = IF req.attempt + 1 <= req.retries
            THEN [req EXCEPT !.pc = "fetch", !.attempt = @ + 1]
            ELSE [req EXCEPT !.pc = "threw", !.attempt = @ + 1,
                             !.result = SkillError("ITERABLE_API_ERROR")]
  /\ ReqKeeps

NextReq ==
  \/ \E outcome \in FetchOutcomes : ReqFetch(outcome)
  \/ ReqHandle
  \/ ReqWake

SpecReq == InitReq /\ [][NextReq]_vars

\* the answers the claim lets the client retry
Retryable(outcome) ==
  outcome.t = "threw" \/ outcome.status = 429 \/ outcome.status >= 500

\* the answers that were followed by a sleep
RetriedAnswers ==
  IF req.pc \in {"sleep", "fetch"} THEN 1..Len(req.answers)
  ELSE 1..(Len(req.answers) - 1)

ReqEnded == req.pc \in {"returned", "threw"}

\* C27: request() retries only HTTP 429, HTTP >= 500 and thrown exceptions; a
\* 401, a 404 or another 4xx ends the call with a SkillError on that attempt;
\* there are never more than retries+1 fetch calls; and an endpoint that always
\* answers 429 ends in ITERABLE_RATE_LIMITED after exactly retries+1 calls.
C27_RetryPolicy ==
  req.pc # "idle" =>
    /\ \A i \in RetriedAnswers : Retryable(req.answers[i])
    /\ req.fetches = Len(req.answers) /\ req.fetches <= req.retries + 1
    /\ (ReqEnded /\ req.answers # <<>>) =>
         LET last == req.answers[Len(req.answers)]
         IN /\ (last.t = "response" /\ last.status = 401)
                 => req.result = SkillError("ITERABLE_AUTH_INVALID")
            /\ (last.t = "response" /\ last.status = 404)
                 => req.result = SkillError("ITERABLE_NOT_FOUND")
            /\ (last.t = "response" /\ last.status \in {400, 403})
                 => req.result = SkillError("ITERABLE_API_ERROR")
    /\ (ReqEnded /\ \A i \in 1..Len(req.answers) : req.answers[i] = IterableResponse(429))
         => /\ req.result = SkillError("ITERABLE_RATE_LIMITED")
            /\ req.fetches = req.retries + 1

\* the default two retries against an endpoint that answers 429 three times
C27_Witness ==
  /\ req.pc = "threw" /\ req.retries = 2 /\ req.fetches = 3
  /\ req.answers = <<IterableResponse(429), IterableResponse(429), IterableResponse(429)>>
  /\ req.result = SkillError("ITERABLE_RATE_LIMITED")

====
